---- MODULE Spec2Model ----
(***************************************************************************)
(* Balance ledger, per-user lock registry and transfer engine of           *)
(* economy.py (class MongoDB), with the unlocked whole-document writers    *)
(* that share the users collection (bartender.py update_bar_data and the   *)
(* lazy schema migration inside get_user).                                 *)
(*                                                                         *)
(* Every "await" of the source is a point where another task may run, so   *)
(* every action below is the code between two awaits of one task.          *)
(*                                                                         *)
(* economy.py:128-133 declares _get_user_lock with "def" although its body *)
(* holds an "async with"; its callers use the returned value as a lock     *)
(* without awaiting.  The model gives it the meaning its callers rely on:  *)
(* a synchronous get-or-create on the registry.                            *)
(***************************************************************************)
EXTENDS Integers, FiniteSets, Sequences, TLC

\* ---------------------------------------------------------------- bounds
NumUsers == 2
NumTasks == 3
\* scaled stand-ins for EconomyConfig.DEFAULT_WALLET_LIMIT / DEFAULT_BANK_LIMIT
WalletLimit == 3
BankLimit == 2
\* scaled stand-in for EconomyConfig.STARTING_MONEY
StartingMoney == 1
\* largest absolute delta / transfer amount a caller passes
MaxDelta == 2
MaxAmount == 2

CurrentSchemaVersion == 2

\* number of stocks listed, and the base_price of each, in the model's price unit
NumStocks == 2
BasePrice == 10
\* largest volume a stock is followed to
MaxVolume == 2

\* MarketConfig: STOCK_MIN_RATIO = 0.1 = 1 / StockMinRatioDen, STOCK_MAX_RATIO,
\* TRADING_HOURS
StockMinRatioDen == 10
StockMaxRatio == 10
OpenHour == 9
CloseHour == 17
\* scaled stand-ins for MIN_GOLD_PRICE = 100, MAX_GOLD_PRICE = 5000 and the
\* starting gold price 1850, in the model's price unit
MinGoldPrice == 1
MaxGoldPrice == 50
GoldStartPrice == 18
\* STOCK_FEE = 0.005 and GOLD_FEE = 0.01, in thousandths
StockFeePermille == 5
GoldFeePermille == 10

\* scaled stand-ins for the limits of check_trade_limit: 100 trades a day,
\* 10 trades in 300 s, a day of 86400 s, MAX_STOCK_ORDER, MAX_GOLD_ORDER
DailyTradeCap == 2
RapidCap == 2
RapidWindow == 2
DayLength == 4
HourLength == 3
\* scaled stand-in for NEWS_COOLDOWN = 3600 s
NewsCooldown == 2
\* BartenderConfig.MAX_INTOXICATION
MaxIntoxication == 10
\* scaled stand-ins for SecurityConfig: MAX_TRACKED_USERS = 1000, SPAM_LIMIT =
\* 5, SPAM_TIMEFRAME = 5 s, CLEANUP_INTERVAL = 60 s, and for the 300 s after
\* which _cleanup_old_entries drops a time
MaxTrackedUsers == 2
SpamLimit == 2
SpamTimeframe == 2
CleanupInterval == 2
TrackerMaxAge == 3
MaxStockOrder == 2
MaxGoldOrder == 1

\* scaled stand-ins for the gambling limits: the cooldown of a game (3 to 5
\* s), MAX_GAMES_PER_MINUTE = 10, the minute, the hour of _cleanup_old_data,
\* MAX_BET (above every wallet limit)
GameCooldown == 1
MaxGamesPerMinute == 2
MinuteLength == 2
GameMaxAge == 3
MaxBet == 4
\* GamblingConfig.MIN_BET
MinBet == 1

\* scaled stand-in for WORK_COOLDOWN (3600 s, less than the TTL of a record)
WorkCooldown == 2

\* the clock is followed from 0 to MaxNow
MaxNow == 8
\* scaled stand-in for the 86400 s of the TTL index on cooldowns.created_at
CooldownTTL == 3
\* largest cooldown window a caller passes
MaxWindow == 4

Users == 1..NumUsers
Tasks == 1..NumTasks
Deltas == (0 - MaxDelta)..MaxDelta
Amounts == 0..MaxAmount

Max(a, b) == IF a >= b THEN a ELSE b
Min(a, b) == IF a <= b THEN a ELSE b

VARIABLES
    users,      \* db.users: user id -> stored document, or NoUser
    lockId,     \* self._locks: user id -> id() of its lock, 0 = no lock yet
    holder,     \* user id -> task holding that user's lock, 0 = unlocked
    pc,         \* task -> position in its coroutine
    op,         \* task -> the top-level call it runs and its arguments
    loc,        \* task -> locals of the coroutine
    res,        \* task -> value returned to the caller
    start,      \* history variable (not program state): db.users as it was
                \* when the process started
    market,     \* MarketCog.market: the MarketSystem object
    current_hour, \* the hour manage_market_hours read last (-1: not run yet)
    now,        \* the clock, in the model's time unit
    connected,  \* db.connected: set once, by connect() when the cog loads
    cooldowns,  \* db.cooldowns: user id, command -> created_at, -1 = no record
    checked,    \* the last check_cooldown call and the value it returned
    set_at,     \* history variable (not program state): user id, command ->
                \* the time of the last set_cooldown, -1 = never
    game_cooldowns,      \* GamblingSecurityManager.game_cooldowns: user id,
                         \* game -> the time the cooldown ends, -1 = no key
    game_counts,         \* GamblingSecurityManager.game_counts: user id ->
                         \* the times of the games played lately
    trade_limits,        \* MarketSecurityManager.trade_limits: user id, asset
                         \* type -> count, last_reset, volume, or NoLimit
    suspicious_activity, \* MarketSecurityManager.suspicious_activity: user id
                         \* -> times of the trades accepted lately
    spam_tracker,        \* MessageFilter.spam_tracker: the users tracked in
                         \* the order their keys were inserted, each with
                         \* the times of its messages
    last_cleanup,        \* MessageFilter._last_cleanup
    sobering_tasks,      \* BartenderCog.sobering_tasks and where each
                         \* sober_up task stands, per user
    news_cooldowns,      \* MarketSecurityManager.news_cooldowns: the time
                         \* the "force_news" cooldown ends, -1 = no key
    accepted    \* history variable (not program state): every trade
                \* check_trade_limit has accepted, in order

\* the cooldown records
cds == <<cooldowns, checked, set_at>>

\* the trade limiter
sec == <<trade_limits, suspicious_activity, news_cooldowns, accepted>>

\* the gambling limiter
games == <<game_cooldowns, game_counts>>

\* the state outside the ledger
\* the message filter
spam == <<spam_tracker, last_cleanup>>

others == <<market, current_hour, now, connected, sobering_tasks, spam, games,
            cds, sec>>

\* the state of the ledger and of the commands that run on it
ledger == <<users, lockId, holder, pc, op, loc, res, start>>

vars == <<users, lockId, holder, pc, op, loc, res, start, others>>

NoUser == [wallet |-> -1, bank |-> -1, networth |-> -1, total_earned |-> -1,
           ver |-> 0, bar |-> 0, intoxication_level |-> 0, portfolio |-> 0]

\* _get_default_user: the document inserted on first access
DefaultUser == [wallet |-> StartingMoney, bank |-> 0, networth |-> StartingMoney,
                total_earned |-> 0, ver |-> CurrentSchemaVersion, bar |-> 0,
                intoxication_level |-> 0, portfolio |-> 0]

NoOp == [kind |-> "none", user |-> 0, to |-> 0, wc |-> 0, bc |-> 0, amount |-> 0,
         asset |-> "none", symbol |-> 0, outcome |-> "none", drink |-> "none"]
NoLoc == [doc |-> NoUser, phase |-> "none", fromw |-> -1, tow |-> -1, tamt |-> 0,
          ret |-> "top", cuser |-> 0, cwc |-> 0, cbc |-> 0, cost |-> 0,
          read_failed |-> FALSE, level |-> 0]
NoRes == [ok |-> FALSE, amount |-> 0, wallet |-> -1, bank |-> -1,
          overflow |-> FALSE, raised |-> FALSE, why |-> "none",
          rwc |-> 0, rbc |-> 0, awc |-> 0, abc |-> 0, at |-> -1]

\* accounts a store can hold before the process starts: within their limits,
\* networth consistent, either schema version
InitAccounts ==
    {[wallet |-> w, bank |-> b, networth |-> w + b, total_earned |-> 0,
      ver |-> v, bar |-> 0, intoxication_level |-> 0, portfolio |-> 0] :
        w \in 0..WalletLimit, b \in 0..BankLimit,
        v \in 1..CurrentSchemaVersion}

\* the stored accounts the concurrent runs start from
CallAccounts ==
    {a \in InitAccounts : /\ a.bank = 0
                          /\ a.wallet \in {0, NumTasks}
                          /\ (a.wallet = 0 => a.ver = CurrentSchemaVersion)}

\* ------------------------------------------------------------------ news

\* Eight of the 24 events of generate_news_events, impacts in hundredths:
\* one positive and four negative events, two of sector 1 (the stock 1), one
\* gold event.  For every sample of them the sum of the doubles, in any
\* order, falls on the same side of +0.1 and -0.1 as the sum of hundredths.
NewsPool ==
    << [type |-> "positive", sector |-> 0, impact |-> 10],
       [type |-> "negative", sector |-> 0, impact |-> -8],
       [type |-> "negative", sector |-> 0, impact |-> -11],
       [type |-> "negative", sector |-> 0, impact |-> -9],
       [type |-> "negative", sector |-> 0, impact |-> -13],
       [type |-> "sector", sector |-> 1, impact |-> 15],
       [type |-> "sector", sector |-> 1, impact |-> -12],
       [type |-> "gold", sector |-> 0, impact |-> 15] >>

\* "random.randint(3, 5)"
MinEvents == 3
MaxEvents == 5

\* "random.sample(all_events, num_events)": the lists of 3 to 5 different
\* events, as indexes into the pool.  Of the orders of one selection only the
\* ascending one is kept: nothing the model computes depends on the order.
NewsSamples ==
    UNION {{s \in [1..k -> DOMAIN NewsPool] :
               \A i \in 1..(k - 1) : s[i] < s[i + 1]} :
           k \in MinEvents..MaxEvents}

\* two samples for the runs that follow prices: three macro events, and one
\* with a gold event and an event of sector 1
QuietNews == <<1, 2, 3>>
BusyNews == <<1, 7, 8>>

RECURSIVE SumImpacts(_, _)
\* "sum(event["impact"] for event in ...)" over the events at the indexes I of
\* the list
SumImpacts(events, I) ==
    IF I = {} THEN 0
    ELSE LET i == CHOOSE x \in I : TRUE
         IN NewsPool[events[i]].impact + SumImpacts(events, I \ {i})

\* the key an event is cached under: 0 for gold, the stock for a sector
\* event, -1 for the events that are not cached
CacheKey(e) ==
    IF e.type = "sector" THEN e.sector
    ELSE IF e.type = "gold" THEN 0
    ELSE -1

\* NEWS_IMPACT_MULTIPLIER = 0.5, in tenths
NewsImpactMultiplier == 5

\* faulty variant: the cache is not emptied first, the new sums are added
\* to the entries of the news before
PrecalculateOnTop(old, events) ==
    LET keys == {CacheKey(NewsPool[events[i]]) : i \in DOMAIN events} \ {-1}
        all == keys \cup DOMAIN old
    IN [k \in all |->
          (IF k \in DOMAIN old THEN old[k] ELSE 0)
          + SumImpacts(events, {i \in DOMAIN events :
                                  CacheKey(NewsPool[events[i]]) = k})
            * NewsImpactMultiplier]

\* _precalculate_news_impacts: the new cache, in thousandths; it has a key
\* for gold and for a sector only if the list has an event of it
PrecalculateNewsImpacts(old, events) ==
    LET keys == {CacheKey(NewsPool[events[i]]) : i \in DOMAIN events} \ {-1}
    IN [k \in keys |->
          SumImpacts(events, {i \in DOMAIN events :
                                CacheKey(NewsPool[events[i]]) = k})
            * NewsImpactMultiplier]

\* "Determine market trend based on news"
MarketTrend(events) ==
    LET total_impact == SumImpacts(events, DOMAIN events)
    IN IF total_impact > 10 THEN "bull"
       ELSE IF total_impact < -10 THEN "bear"
       ELSE "stable"

\* faulty variant: the trend of the news before is kept
GenerateNewsKeepingTrend(m, events) ==
    [m EXCEPT !.news_events = events,
              !.news_calls = (@ + 1) % 2,
              !.news_impact_cache = PrecalculateNewsImpacts(@, events)]

\* generate_news_events, the sample drawn being events
GenerateNewsEvents(m, events) ==
    [m EXCEPT !.news_events = events,
              !.news_calls = (@ + 1) % 2,
              !.news_impact_cache = PrecalculateNewsImpacts(@, events),
              !.market_trend = MarketTrend(events)]

\* the economic indicators' share of the sentiment, in hundredths
\* (the rates in thousandths)
IndicatorSentiment(m) ==
    (IF m.gdp_growth > 30 THEN 10 ELSE IF m.gdp_growth < 20 THEN -10 ELSE 0)
    + (IF m.inflation_rate > 30 THEN -15
       ELSE IF m.inflation_rate < 20 THEN 5 ELSE 0)
    + (IF m.interest_rate > 40 THEN -10
       ELSE IF m.interest_rate < 30 THEN 5 ELSE 0)

\* the sentiment before it is bounded, base being random.uniform(-0.2, 0.2)
RawSentiment(m, base) ==
    base + IndicatorSentiment(m)
    + SumImpacts(m.news_events,
                 {i \in DOMAIN m.news_events :
                    NewsPool[m.news_events[i]].type \in {"positive", "negative"}})
    + (IF m.market_trend = "bull" THEN 10
       ELSE IF m.market_trend = "bear" THEN -10 ELSE 0)

\* faulty variant: the sentiment is stored as summed
BoundNothing(x) == x

\* "max(-1.0, min(1.0, base_sentiment))", in hundredths
BoundSentiment(x) == Max(-100, Min(100, x))

\* calculate_market_sentiment
CalculateMarketSentiment(m, base) ==
    [m EXCEPT !.market_sentiment = BoundSentiment(RawSentiment(m, base))]

\* MarketSystem.__init__ with news sample n: closed, every price at its
\* starting value.  news_calls counts the calls of generate_news_events,
\* modulo 2 to stay finite (not program state).
MarketSystem(n) ==
    [market_open |-> FALSE,
     market_sentiment |-> 0,
     inflation_rate |-> 25,
     interest_rate |-> 35,
     gdp_growth |-> 28,
     news_impact_cache |-> PrecalculateNewsImpacts(<< >>, n),
     market_trend |-> MarketTrend(n),
     gold_price |-> GoldStartPrice,
     gold_demand |-> 0,
     stocks |-> [s \in 1..NumStocks |->
                   [price |-> BasePrice, previous_price |-> BasePrice,
                    day_high |-> BasePrice, day_low |-> BasePrice,
                    volume |-> 0]],
     news_events |-> n,
     news_calls |-> 1,
     daily_volume |-> 0]

\* the commands that keep a cooldown record
Commands == {"work"}

\* no check_cooldown call yet; value -1 stands for None
NoCheck == [user |-> 0, command |-> "none", window |-> 0, at |-> -1,
            value |-> -1]

\* an empty cooldowns collection, the clock at 0
InitCooldowns ==
    /\ now = 0
    /\ cooldowns = [u \in Users |-> [c \in Commands |-> -1]]
    /\ checked = NoCheck
    /\ set_at = [u \in Users |-> [c \in Commands |-> -1]]

AssetTypes == {"stock", "gold"}

\* the key is not in self.trade_limits
NoLimit == [count |-> -1, last_reset |-> -1, volume |-> -1]

\* MarketSecurityManager.__init__ (a user without a list in
\* suspicious_activity and a user with an empty list are not told apart)
InitSecurity ==
    /\ trade_limits = [u \in Users |-> [a \in AssetTypes |-> NoLimit]]
    /\ suspicious_activity = [u \in Users |-> << >>]
    /\ news_cooldowns = -1
    /\ accepted = << >>

\* the market as the ledger runs see it: just constructed, no loop has run
InitQuiet ==
    /\ market = MarketSystem(QuietNews)
    /\ current_hour = -1
    /\ InitCooldowns
    /\ InitSecurity

\* the games: "flip" stands for the games that settle at once (flip, dice,
\* slots, rps), "highlow" waits for the player's reaction first
Games == {"flip", "highlow"}

\* GamblingSecurityManager.__init__
InitGames ==
    /\ game_cooldowns = [u \in Users |-> [g \in Games |-> -1]]
    /\ game_counts = [u \in Users |-> <<>>]

\* no sober_up task: the user is not in sobering_tasks.  A task sleeps, reads
\* the user (level), reads it again in update_bar_data (doc) and writes.
NoTask == [at |-> "none", level |-> 0, doc |-> NoUser]

\* MongoDB.__init__: no lock exists; no command is running
InitLocals ==
    /\ InitGames
    /\ sobering_tasks = [u \in Users |-> NoTask]
    /\ spam_tracker = << >>
    /\ last_cleanup = 0
    /\ start = users
    /\ lockId = [u \in Users |-> 0]
    /\ holder = [u \in Users |-> 0]
    /\ pc = [t \in Tasks |-> "idle"]
    /\ op = [t \in Tasks |-> NoOp]
    /\ loc = [t \in Tasks |-> NoLoc]
    /\ res = [t \in Tasks |-> NoRes]

\* the process once connect() has succeeded
InitTasks ==
    /\ InitLocals
    /\ connected = TRUE

\* the process as the ledger runs start it
InitProcess ==
    /\ InitTasks
    /\ InitQuiet

Init ==
    /\ users \in [Users -> CallAccounts \cup {NoUser}]
    /\ InitProcess

\* faulty variant: the store is taken to be reachable always
StoreDownNever(c) == FALSE

\* "if not self.connected:"
StoreDown(c) == ~c

\* ------------------------------------------------------- the lock registry

\* faulty variant: a new lock is made on every request
FreshIdsEveryTime(reg, u) == Users \ {reg[v] : v \in Users \ {u}}

\* ids a new asyncio.Lock() can get: any id no live lock has (id() is the
\* object's address, unrelated to the user id)
FreshIds(reg, u) ==
    IF reg[u] # 0 THEN {reg[u]} ELSE Users \ {reg[v] : v \in Users}

\* _get_user_lock: create the user's lock on first use, else return it
GetUserLock(reg, u, a) == [reg EXCEPT ![u] = a]

\* faulty variant: the lock is taken whether or not it is held
LockFreeAlways(h, u) == TRUE

\* asyncio.Lock.locked() is False: "async with" takes the lock without yielding
LockFree(h, u) == h[u] = 0

\* faulty variant: sender's lock first, receiver's second
LockOrderAsPassed(reg, from, to) == <<from, to>>

\* sorted([from_lock, to_lock], key=id), as the users the two locks belong to
LockOrder(reg, from, to) ==
    IF reg[from] <= reg[to] THEN <<from, to>> ELSE <<to, from>>

\* ------------------------------------------------- the gambling limiter

\* "[t for t in ... if now - t < 60]"
RecentGames(times, t) == SelectSeq(times, LAMBDA x : t - x < MinuteLength)

\* check_game_cooldown at time t: the answer, and game_counts as it leaves
\* them (it has no await of its own: it runs without interleaving)
CheckGameCooldown(gc, counts, u, g, t) ==
    IF gc[u][g] # -1 /\ gc[u][g] - t > 0
    THEN [ok |-> FALSE, counts |-> counts]
    ELSE LET recent == RecentGames(counts[u], t)
         IN [ok |-> Len(recent) < MaxGamesPerMinute,
             counts |-> [counts EXCEPT ![u] = recent]]

\* validate_bet, for a player who is not flagged as suspicious (the streak
\* of 10 wins that flags one is out of reach of NumTasks games)
ValidateBet(bet, user_balance) ==
    /\ bet >= MinBet
    /\ bet <= MaxBet
    /\ bet <= user_balance

\* the ways a game ends for the player
Outcomes == {"won", "lost", "timeout"}

\* the wallet_change a settled game passes to update_balance: winnings - bet
\* with winnings = int(bet * 1.8) for the coin flip and bet * 2.0 for
\* high-low, or -bet
GameChange(g, outcome, bet) ==
    IF outcome = "lost" THEN 0 - bet
    ELSE IF g = "highlow" THEN (bet * 2) - bet
    ELSE ((bet * 18) \div 10) - bet

\* set_game_cooldown with its _cleanup_old_data: the cooldown of the game,
\* the time of the game for the rate limit, old entries dropped
SetGameCooldown(u, g) ==
    LET gc1 == [game_cooldowns EXCEPT ![u][g] = now + GameCooldown]
        counts1 == [game_counts EXCEPT ![u] = Append(@, now)]
    IN /\ game_cooldowns' =
             [v \in Users |->
                 [h \in Games |-> IF gc1[v][h] # -1 /\ now - gc1[v][h] < GameMaxAge
                                  THEN gc1[v][h] ELSE -1]]
       /\ game_counts' =
             [v \in Users |->
                 SelectSeq(counts1[v], LAMBDA x : now - x < 2 * MinuteLength)]

\* ------------------------------------------- _update_balance_internal, pure

\* faulty variant: no clamp at 0
NonNegativeUnclamped(x) == x

\* "new_wallet = max(0, new_wallet)", "new_bank = max(0, new_bank)"
NonNegative(x) == Max(0, x)

\* faulty variant: networth forgets the bank
NetworthWalletOnly(w, b) == w

\* "networth": new_wallet + new_bank
Networth(w, b) == w + b

\* bank_overflow is computed from bank + bank_change, before any wallet
\* overflow is redirected into the bank
BankOverflow(user, bc) == Max(0, (user.bank + bc) - BankLimit)

\* faulty variant: a wallet above its limit is not noticed
WalletOverflowNone(user, wc) == 0

\* "wallet_overflow = max(0, new_wallet - user['wallet_limit'])"
WalletOverflow(user, wc) == Max(0, (user.wallet + wc) - WalletLimit)

\* faulty variant: the bank is filled up whatever the overflow was
ActualBankTransferAll(wallet_overflow, bank_capacity) == bank_capacity

\* "actual_bank_transfer = min(wallet_overflow, bank_capacity)"
ActualBankTransfer(wallet_overflow, bank_capacity) ==
    Min(wallet_overflow, bank_capacity)

\* faulty variant: total_earned grows by the deltas asked for
TotalEarnedIncRequested(wc, bc, awc, abc) ==
    IF (wc > 0 \/ bc > 0) /\ (wc + bc > 0) THEN wc + bc ELSE 0

\* the "$inc" of total_earned: present when the deltas asked for are
\* net-positive, and then the sum of the actual changes
TotalEarnedInc(wc, bc, awc, abc) ==
    IF (wc > 0 \/ bc > 0) /\ (wc + bc > 0) THEN awc + abc ELSE 0

\* the balances and the total_earned increment computed from the document read
UpdateCalc(user, wc, bc) ==
    LET wallet_overflow == WalletOverflow(user, wc)
        bank_overflow == BankOverflow(user, bc)
        bank_capacity == BankLimit - user.bank
        actual_bank_transfer == ActualBankTransfer(wallet_overflow,
                                                   bank_capacity)
        new_wallet1 == IF wallet_overflow > 0 THEN WalletLimit
                       ELSE user.wallet + wc
        new_bank1 == IF wallet_overflow > 0
                     THEN (user.bank + bc) + actual_bank_transfer
                     ELSE user.bank + bc
        actual_wallet_change == IF wallet_overflow > 0
                                THEN WalletLimit - user.wallet ELSE wc
        actual_bank1 == IF wallet_overflow > 0
                        THEN bc + actual_bank_transfer ELSE bc
        new_bank2 == IF bank_overflow > 0 THEN BankLimit ELSE new_bank1
        actual_bank_change == IF bank_overflow > 0
                              THEN BankLimit - user.bank ELSE actual_bank1
        new_wallet == NonNegative(new_wallet1)
        new_bank == NonNegative(new_bank2)
    IN [wallet |-> new_wallet,
        bank |-> new_bank,
        networth |-> Networth(new_wallet, new_bank),
        inc |-> TotalEarnedInc(wc, bc, actual_wallet_change,
                               actual_bank_change),
        overflow |-> (wallet_overflow > 0 \/ bank_overflow > 0),
        awc |-> actual_wallet_change,
        abc |-> actual_bank_change]

\* find_one_and_update with upsert: $set wallet, bank, networth and $inc
\* total_earned on the document as it is stored at the time of the write
ApplyUpdate(stored, c) ==
    LET base == IF stored = NoUser
                THEN [NoUser EXCEPT !.total_earned = 0, !.ver = 1] ELSE stored
    IN [base EXCEPT !.wallet = c.wallet, !.bank = c.bank,
                    !.networth = c.networth,
                    !.total_earned = base.total_earned + c.inc]

\* ------------------------------------------------------- transfer_money, pure

\* faulty variant: the sender's wallet is not checked
CanCoverAlways(wallet, amount) == TRUE

\* "if from_user_data['wallet'] < amount: return False, 0"
CanCover(wallet, amount) == ~(wallet < amount)

\* transfer_amount: capped to the receiver's wallet headroom
TransferAmount(toWallet, amount) ==
    IF toWallet + amount > WalletLimit THEN WalletLimit - toWallet ELSE amount

\* ------------------------------------------------------------ task steps
\* Tasks are numbered in the order their commands arrive: a command takes the
\* lowest task number not yet used.

\* the user whose document the running get_user call reads
\* ----------------------------------------------------------------- the bar

\* Four of the drinks of _initialize_drinks: the two soft drinks that lower
\* and keep the level, a whiskey, and the strongest drink on the menu.  Every
\* price is one unit of the model's money.
Menu == {"water", "soda", "whiskey", "absinthe"}

Drink(key) ==
    [price |-> 1,
     intoxication |-> CASE key = "water" -> -2
                        [] key = "soda" -> 0
                        [] key = "whiskey" -> 4
                        [] OTHER -> 6]

\* order_drink, "Check intoxication level for strong drinks"
TooTipsy(level, drink) == level >= 5 /\ drink.intoxication > 0

\* apply_drink_effects: "max(0, current_intoxication + effects[...])"
NewIntoxication(current, drink) == Max(0, current + drink.intoxication)

GUser(t) ==
    CASE loc[t].phase = "ub" -> loc[t].cuser
      [] loc[t].phase = "to" -> op[t].to
      [] OTHER -> op[t].user

\* update_balance_atomic up to its first suspension: look the lock up, and
\* either take it and go on to the read, or wait for it.  h and l are the
\* lock holders and the task's locals at the call.
CallUpdate(t, h, l, u, wc, bc, ret) ==
    LET l2 == [l EXCEPT !.phase = "ub", !.cuser = u, !.cwc = wc, !.cbc = bc,
                        !.ret = ret, !.doc = NoUser]
    IN /\ loc' = [loc EXCEPT ![t] = l2]
       /\ IF LockFree(h, u)
          THEN /\ holder' = [h EXCEPT ![u] = t]
               /\ pc' = [pc EXCEPT ![t] = "find"]
          ELSE /\ holder' = h
               /\ pc' = [pc EXCEPT ![t] = "ub_lock"]

\* "async with lock1: async with lock2:" from the point where lock1 is free
TakeLocks(t, l1, l2) ==
    LET h1 == [holder EXCEPT ![l1] = t]
    IN IF LockFree(h1, l2)
       THEN /\ holder' = [h1 EXCEPT ![l2] = t]
            /\ pc' = [pc EXCEPT ![t] = "find"]
       ELSE /\ holder' = h1
            /\ pc' = [pc EXCEPT ![t] = "tr_lock2"]

\* the code that runs when get_user returns document d, up to the next await
Continue(t, d) ==
    CASE loc[t].phase = "ub" ->
           /\ pc' = [pc EXCEPT ![t] = "ub_write"]
           /\ loc' = [loc EXCEPT ![t].doc = d]
           /\ UNCHANGED <<holder, res>>
      [] loc[t].phase = "bar" ->
           /\ pc' = [pc EXCEPT ![t] = "bar_write"]
           /\ loc' = [loc EXCEPT ![t].doc = d]
           /\ UNCHANGED <<holder, res>>
      [] loc[t].phase = "from" ->
           /\ pc' = [pc EXCEPT ![t] = "find"]
           /\ loc' = [loc EXCEPT ![t].fromw = d.wallet, ![t].phase = "to",
                                 ![t].doc = NoUser]
           /\ UNCHANGED <<holder, res>>
      [] loc[t].phase = "to" ->
           IF ~CanCover(loc[t].fromw, op[t].amount)
           THEN /\ pc' = [pc EXCEPT ![t] = "done"]
                /\ res' = [res EXCEPT ![t] = NoRes]
                /\ loc' = [loc EXCEPT ![t] = NoLoc]
                /\ holder' = [u \in Users |->
                                IF u \in {op[t].user, op[t].to} THEN 0
                                ELSE holder[u]]
           ELSE /\ CallUpdate(t, holder,
                              [loc[t] EXCEPT
                                 !.tow = d.wallet,
                                 !.tamt = TransferAmount(d.wallet, op[t].amount)],
                              op[t].user, 0 - op[t].amount, 0, "debit")
                /\ UNCHANGED res
      [] loc[t].phase = "get" ->
           /\ pc' = [pc EXCEPT ![t] = "done"]
           /\ res' = [res EXCEPT ![t] = [NoRes EXCEPT !.ok = TRUE,
                                                      !.wallet = d.wallet,
                                                      !.bank = d.bank]]
           /\ loc' = [loc EXCEPT ![t] = NoLoc]
           /\ UNCHANGED holder
      [] loc[t].phase = "game" ->
           \* a game after "await db.get_user": validate_bet against the
           \* wallet just read; flip settles, high_low shows the first card
           IF ~ValidateBet(op[t].amount, d.wallet)
           THEN /\ pc' = [pc EXCEPT ![t] = "done"]
                /\ res' = [res EXCEPT ![t] = [NoRes EXCEPT !.why = "bet"]]
                /\ loc' = [loc EXCEPT ![t] = NoLoc]
                /\ UNCHANGED holder
           ELSE IF op[t].kind = "highlow"
           THEN /\ pc' = [pc EXCEPT ![t] = "gm_wait"]
                /\ loc' = [loc EXCEPT ![t] = NoLoc]
                /\ UNCHANGED <<holder, res>>
           ELSE /\ CallUpdate(t, holder, loc[t], op[t].user,
                              GameChange(op[t].kind, op[t].outcome,
                                         op[t].amount), 0, op[t].kind)
                /\ UNCHANGED res
      [] loc[t].phase = "order" ->
           \* order_drink, "Check if user has enough money", then
           \* get_intoxication_level reads the user again
           IF d.wallet < Drink(op[t].drink).price
           THEN /\ pc' = [pc EXCEPT ![t] = "done"]
                /\ res' = [res EXCEPT ![t] = [NoRes EXCEPT !.why = "funds"]]
                /\ loc' = [loc EXCEPT ![t] = NoLoc]
                /\ UNCHANGED holder
           ELSE /\ pc' = [pc EXCEPT ![t] = "find"]
                /\ loc' = [loc EXCEPT ![t].phase = "order_level"]
                /\ UNCHANGED <<holder, res>>
      [] loc[t].phase = "order_level" ->
           \* the level is checked, then "Process the drink order"
           IF TooTipsy(d.intoxication_level, Drink(op[t].drink))
           THEN /\ pc' = [pc EXCEPT ![t] = "done"]
                /\ res' = [res EXCEPT ![t] = [NoRes EXCEPT !.why = "tipsy"]]
                /\ loc' = [loc EXCEPT ![t] = NoLoc]
                /\ UNCHANGED holder
           ELSE /\ CallUpdate(t, holder, loc[t], op[t].user,
                              0 - Drink(op[t].drink).price, 0, "order")
                /\ UNCHANGED res
      [] loc[t].phase = "apply" ->
           \* apply_drink_effects: the level read by get_intoxication_level
           \* gives the new level; update_bar_data then reads the user
           /\ pc' = [pc EXCEPT ![t] = "find"]
           /\ loc' = [loc EXCEPT
                        ![t].level = NewIntoxication(d.intoxication_level,
                                                     Drink(op[t].drink)),
                        ![t].phase = "apply_bar"]
           /\ UNCHANGED <<holder, res>>
      [] loc[t].phase = "apply_bar" ->
           /\ pc' = [pc EXCEPT ![t] = "apply_write"]
           /\ loc' = [loc EXCEPT ![t].doc = d]
           /\ UNCHANGED <<holder, res>>
      [] loc[t].phase = "work" ->
           \* work: the job and the earnings are drawn, then update_balance
           /\ CallUpdate(t, holder, loc[t], op[t].user, 1, 0, "work")
           /\ UNCHANGED res
      [] loc[t].phase = "buy" ->
           \* buy_investment, "Check if user has enough money in bank"
           IF d.bank < loc[t].cost
           THEN /\ pc' = [pc EXCEPT ![t] = "done"]
                /\ res' = [res EXCEPT ![t] = [NoRes EXCEPT !.why = "funds"]]
                /\ loc' = [loc EXCEPT ![t] = NoLoc]
                /\ UNCHANGED holder
           ELSE IF op[t].asset = "stock"
           THEN /\ pc' = [pc EXCEPT ![t] = "find"]
                /\ loc' = [loc EXCEPT ![t].phase = "buy_pf"]
                /\ UNCHANGED <<holder, res>>
           ELSE /\ CallUpdate(t, holder, loc[t], op[t].user, 0,
                              0 - loc[t].cost, "buy")
                /\ UNCHANGED res
      [] loc[t].phase = "buy_pf" ->
           \* stock: the portfolio is read, then "Process purchase"
           /\ CallUpdate(t, holder, loc[t], op[t].user, 0, 0 - loc[t].cost,
                         "buy")
           /\ UNCHANGED res
      [] loc[t].phase = "buy_pf2" ->
           \* gold: the portfolio is read after the purchase, then
           \* update_user_portfolio reads the user
           /\ pc' = [pc EXCEPT ![t] = "find"]
           /\ loc' = [loc EXCEPT ![t].phase = "buy_save"]
           /\ UNCHANGED <<holder, res>>
      [] loc[t].phase = "buy_save" ->
           \* Economy.update_user_portfolio calls self.update_user, which
           \* Economy does not have: AttributeError, caught by buy_investment
           /\ pc' = [pc EXCEPT ![t] = "done"]
           /\ res' = [res EXCEPT ![t] = [NoRes EXCEPT !.amount = loc[t].cost,
                                                      !.raised = TRUE,
                                                      !.why = "failed"]]
           /\ loc' = [loc EXCEPT ![t] = NoLoc]
           /\ UNCHANGED holder

\* _get_user_lock in the update_balance_atomic call a command makes once its
\* read has returned (the locals after the step say whether it made one)
RegisterLock(t) ==
    IF loc'[t].phase = "ub" /\ loc[t].phase # "ub"
    THEN \E a \in FreshIds(lockId, loc'[t].cuser) :
            lockId' = GetUserLock(lockId, loc'[t].cuser, a)
    ELSE UNCHANGED lockId

\* the document update_balance returns: the balances written and, "if
\* overflow_handled", the four _original_ and _actual_ changes
Annotated(c, wc, bc) ==
    IF c.overflow
    THEN [NoRes EXCEPT !.ok = TRUE, !.wallet = c.wallet, !.bank = c.bank,
                       !.overflow = TRUE, !.rwc = wc, !.rbc = bc,
                       !.awc = c.awc, !.abc = c.abc]
    ELSE [NoRes EXCEPT !.ok = TRUE, !.wallet = c.wallet, !.bank = c.bank]

\* update_balance(user_id, wallet_change, bank_change) is called
StartUpdateBalance(t, u, wc, bc) ==
    /\ pc[t] = "idle"
    /\ \A s \in Tasks : s < t => pc[s] # "idle"
    /\ op' = [op EXCEPT ![t] = [NoOp EXCEPT !.kind = "ub", !.user = u,
                                             !.wc = wc, !.bc = bc]]
    /\ \E a \in FreshIds(lockId, u) : lockId' = GetUserLock(lockId, u, a)
    /\ IF StoreDown(connected)
       THEN \* the lock is taken and released without a suspension
            /\ pc' = [pc EXCEPT ![t] = "done"]
            /\ res' = [res EXCEPT ![t] =
                         [NoRes EXCEPT !.ok = TRUE,
                                       !.wallet = DefaultUser.wallet,
                                       !.bank = DefaultUser.bank]]
            /\ UNCHANGED <<holder, loc>>
       ELSE /\ CallUpdate(t, holder, NoLoc, u, wc, bc, "top")
            /\ UNCHANGED res
    /\ UNCHANGED <<users, start, others>>

\* get_user(user_id) is called on its own
StartGetUser(t, u) ==
    /\ pc[t] = "idle"
    /\ \A s \in Tasks : s < t => pc[s] # "idle"
    /\ op' = [op EXCEPT ![t] = [NoOp EXCEPT !.kind = "get", !.user = u]]
    /\ IF StoreDown(connected)
       THEN /\ pc' = [pc EXCEPT ![t] = "done"]
            /\ res' = [res EXCEPT ![t] =
                         [NoRes EXCEPT !.ok = TRUE,
                                       !.wallet = DefaultUser.wallet,
                                       !.bank = DefaultUser.bank]]
            /\ UNCHANGED loc
       ELSE /\ pc' = [pc EXCEPT ![t] = "find"]
            /\ loc' = [loc EXCEPT ![t] = [NoLoc EXCEPT !.phase = "get"]]
            /\ UNCHANGED res
    /\ UNCHANGED <<users, lockId, holder, start, others>>

\* faulty variant: a waiting caller enters although the lock is held
AcquireUserLockUnguarded(t) ==
    /\ pc[t] = "ub_lock"
    /\ holder' = [holder EXCEPT ![loc[t].cuser] = t]
    /\ pc' = [pc EXCEPT ![t] = "find"]
    /\ UNCHANGED <<users, lockId, op, loc, res, start, others>>

\* a waiting "async with user_lock" gets the lock
AcquireUserLock(t) ==
    /\ pc[t] = "ub_lock"
    /\ LockFree(holder, loc[t].cuser)
    /\ holder' = [holder EXCEPT ![loc[t].cuser] = t]
    /\ pc' = [pc EXCEPT ![t] = "find"]
    /\ UNCHANGED <<users, lockId, op, loc, res, start, others>>

\* get_user: find_one answers
FindUser(t) ==
    /\ pc[t] = "find"
    /\ LET d == users[GUser(t)]
       IN IF d = NoUser
          THEN /\ pc' = [pc EXCEPT ![t] = "insert"]
               /\ loc' = [loc EXCEPT ![t].doc = DefaultUser]
               /\ UNCHANGED <<holder, res>>
          ELSE IF d.ver < CurrentSchemaVersion
          THEN /\ pc' = [pc EXCEPT ![t] = "migrate"]
               /\ loc' = [loc EXCEPT
                            ![t].doc = [d EXCEPT !.ver = CurrentSchemaVersion]]
               /\ UNCHANGED <<holder, res>>
          ELSE Continue(t, d)
    /\ RegisterLock(t)
    /\ UNCHANGED <<users, op, start, others>>

\* get_user inside _update_balance_internal: find_one raises, "except
\* Exception" returns the default user and the update goes on with it.
\* read_failed only records that this happened (it is not a local).
FindUserFails(t) ==
    /\ pc[t] = "find"
    /\ loc[t].phase = "ub"
    /\ pc' = [pc EXCEPT ![t] = "ub_write"]
    /\ loc' = [loc EXCEPT ![t].doc = DefaultUser, ![t].read_failed = TRUE]
    /\ UNCHANGED <<users, lockId, holder, op, res, start, others>>

\* get_user: insert_one of the default document answers; with the unique index
\* on user_id a second insert fails and get_user returns the unsaved default
InsertUser(t) ==
    /\ pc[t] = "insert"
    /\ users' = IF users[GUser(t)] = NoUser
                THEN [users EXCEPT ![GUser(t)] = DefaultUser] ELSE users
    /\ Continue(t, DefaultUser)
    /\ RegisterLock(t)
    /\ UNCHANGED <<op, start, others>>

\* _migrate_user_schema: update_user writes the whole migrated document back
MigrateUser(t) ==
    /\ pc[t] = "migrate"
    /\ users' = [users EXCEPT ![GUser(t)] = loc[t].doc]
    /\ Continue(t, loc[t].doc)
    /\ RegisterLock(t)
    /\ UNCHANGED <<op, start, others>>

\* release() of an asyncio.Lock raises RuntimeError when it is not locked
ReleaseAll(h, us) == [u \in Users |-> IF u \in us THEN 0 ELSE h[u]]

\* _update_balance_internal: find_one_and_update answers, "async with" exits
WriteBalance(t) ==
    /\ pc[t] = "ub_write"
    /\ LET u == loc[t].cuser
           c == UpdateCalc(loc[t].doc, loc[t].cwc, loc[t].cbc)
           h1 == ReleaseAll(holder, {u})
       IN /\ users' = [users EXCEPT ![u] = ApplyUpdate(users[u], c)]
          /\ CASE loc[t].ret = "top" ->
                    /\ pc' = [pc EXCEPT ![t] = "done"]
                    /\ res' = [res EXCEPT ![t] =
                                 Annotated(c, loc[t].cwc, loc[t].cbc)]
                    /\ loc' = [loc EXCEPT ![t] = NoLoc]
                    /\ holder' = h1
               [] loc[t].ret = "debit" ->
                    /\ CallUpdate(t, h1, loc[t], op[t].to, loc[t].tamt, 0,
                                  "credit")
                    /\ UNCHANGED res
               [] loc[t].ret = "flip" ->
                    \* the game is settled; set_game_cooldown follows
                    \* without an await
                    /\ pc' = [pc EXCEPT ![t] = "done"]
                    /\ res' = [res EXCEPT ![t] =
                                 [Annotated(c, loc[t].cwc, loc[t].cbc)
                                    EXCEPT !.ok = TRUE,
                                           !.amount = op[t].amount]]
                    /\ loc' = [loc EXCEPT ![t] = NoLoc]
                    /\ holder' = h1
               [] loc[t].ret = "highlow" ->
                    \* the game is settled; "await message.edit" is next
                    /\ pc' = [pc EXCEPT ![t] = "gm_edit"]
                    /\ res' = [res EXCEPT ![t] =
                                 [Annotated(c, loc[t].cwc, loc[t].cbc)
                                    EXCEPT !.ok = FALSE,
                                           !.amount = op[t].amount]]
                    /\ loc' = [loc EXCEPT ![t] = NoLoc]
                    /\ holder' = h1
               [] loc[t].ret = "work" ->
                    \* the payout is made (res.at: when); set_cooldown is next
                    /\ pc' = [pc EXCEPT ![t] = "wk_set"]
                    /\ res' = [res EXCEPT ![t] =
                                 [Annotated(c, loc[t].cwc, loc[t].cbc)
                                    EXCEPT !.ok = FALSE, !.at = now]]
                    /\ loc' = [loc EXCEPT ![t] = NoLoc]
                    /\ holder' = h1
               [] loc[t].ret = "order" ->
                    \* order_drink goes on to apply_drink_effects
                    /\ pc' = [pc EXCEPT ![t] = "find"]
                    /\ loc' = [loc EXCEPT ![t].phase = "apply",
                                          ![t].doc = NoUser]
                    /\ holder' = h1
                    /\ UNCHANGED res
               [] loc[t].ret = "buy" ->
                    /\ pc' = [pc EXCEPT ![t] = "find"]
                    /\ loc' = [loc EXCEPT
                                 ![t].phase = IF op[t].asset = "stock"
                                              THEN "buy_save" ELSE "buy_pf2",
                                 ![t].doc = NoUser]
                    /\ holder' = h1
                    /\ UNCHANGED res
               [] OTHER ->
                    /\ pc' = [pc EXCEPT ![t] = "done"]
                    /\ res' = [res EXCEPT ![t] =
                                 [NoRes EXCEPT
                                    !.ok = TRUE, !.amount = loc[t].tamt,
                                    !.raised = \E v \in {op[t].user, op[t].to} :
                                                   h1[v] = 0]]
                    /\ loc' = [loc EXCEPT ![t] = NoLoc]
                    /\ holder' = ReleaseAll(h1, {op[t].user, op[t].to})
    /\ IF loc[t].ret = "flip"
       THEN SetGameCooldown(op[t].user, "flip")
       ELSE UNCHANGED games
    /\ UNCHANGED <<lockId, op, start, market, current_hour, now, connected,
                   sobering_tasks, spam, cds, sec>>

\* _update_balance_internal: find_one_and_update raises.  The handler at
\* "except Exception" calls update_balance again, which reaches "async with
\* user_lock" while this task still holds that lock.
WriteBalanceFails(t) ==
    /\ pc[t] = "ub_write"
    /\ CallUpdate(t, holder, loc[t], loc[t].cuser, loc[t].cwc, loc[t].cbc,
                  loc[t].ret)
    /\ UNCHANGED <<users, lockId, op, res, start, others>>

\* transfer_money(from_user, to_user, amount) is called
StartTransfer(t, from, to, amount) ==
    /\ pc[t] = "idle"
    /\ \A s \in Tasks : s < t => pc[s] # "idle"
    /\ op' = [op EXCEPT ![t] = [NoOp EXCEPT !.kind = "tr", !.user = from,
                                             !.to = to, !.amount = amount]]
    /\ IF amount <= 0
       THEN /\ pc' = [pc EXCEPT ![t] = "done"]
            /\ res' = [res EXCEPT ![t] = NoRes]
            /\ UNCHANGED <<lockId, holder, loc>>
       ELSE /\ \E a \in FreshIds(lockId, from) :
                 \E b \in FreshIds(GetUserLock(lockId, from, a), to) :
                    lockId' = GetUserLock(GetUserLock(lockId, from, a), to, b)
            /\ loc' = [loc EXCEPT ![t] = [NoLoc EXCEPT !.phase = "from"]]
            /\ LET o == LockOrder(lockId', from, to)
               IN IF LockFree(holder, o[1])
                  THEN TakeLocks(t, o[1], o[2])
                  ELSE /\ pc' = [pc EXCEPT ![t] = "tr_lock1"]
                       /\ UNCHANGED holder
            /\ UNCHANGED res
    /\ UNCHANGED <<users, start, others>>

\* a transfer waiting for the first lock gets it
AcquireFirstLock(t) ==
    /\ pc[t] = "tr_lock1"
    /\ LET o == LockOrder(lockId, op[t].user, op[t].to)
       IN /\ LockFree(holder, o[1])
          /\ TakeLocks(t, o[1], o[2])
    /\ UNCHANGED <<users, lockId, op, loc, res, start, others>>

\* a transfer waiting for the second lock gets it
AcquireSecondLock(t) ==
    /\ pc[t] = "tr_lock2"
    /\ LET o == LockOrder(lockId, op[t].user, op[t].to)
       IN /\ LockFree(holder, o[2])
          /\ holder' = [holder EXCEPT ![o[2]] = t]
    /\ pc' = [pc EXCEPT ![t] = "find"]
    /\ UNCHANGED <<users, lockId, op, loc, res, start, others>>

\* BartenderCog.update_bar_data is called: get_user, outside any lock
StartBarUpdate(t, u) ==
    /\ pc[t] = "idle"
    /\ \A s \in Tasks : s < t => pc[s] # "idle"
    /\ op' = [op EXCEPT ![t] = [NoOp EXCEPT !.kind = "bar", !.user = u]]
    /\ loc' = [loc EXCEPT ![t] = [NoLoc EXCEPT !.phase = "bar"]]
    /\ pc' = [pc EXCEPT ![t] = "find"]
    /\ UNCHANGED <<users, lockId, holder, res, start, others>>

\* update_bar_data: update_user $sets every field of the document it read,
\* with the merged bar_data
WriteBarData(t) ==
    /\ pc[t] = "bar_write"
    /\ users' = [users EXCEPT ![op[t].user] = [loc[t].doc EXCEPT !.bar = 1]]
    /\ pc' = [pc EXCEPT ![t] = "done"]
    /\ res' = [res EXCEPT ![t] = [NoRes EXCEPT !.ok = TRUE]]
    /\ loc' = [loc EXCEPT ![t] = NoLoc]
    /\ UNCHANGED <<lockId, holder, op, start, others>>

\* order_drink is called with a drink of the menu: get_user
StartOrder(t, u, key) ==
    /\ pc[t] = "idle"
    /\ \A s \in Tasks : s < t => pc[s] # "idle"
    /\ op' = [op EXCEPT ![t] = [NoOp EXCEPT !.kind = "order", !.user = u,
                                             !.drink = key]]
    /\ loc' = [loc EXCEPT ![t] = [NoLoc EXCEPT !.phase = "order"]]
    /\ pc' = [pc EXCEPT ![t] = "find"]
    /\ UNCHANGED <<users, lockId, holder, res, start, others>>

\* apply_drink_effects: update_bar_data writes the document it read with the
\* new level merged into bar_data; the sober_up task is created "if user_id
\* not in self.sobering_tasks"; order_drink goes on to its own
\* update_bar_data, which reads the user
ApplyWrite(t) ==
    /\ pc[t] = "apply_write"
    /\ users' = [users EXCEPT
                   ![op[t].user] = [loc[t].doc EXCEPT
                                      !.bar = 1,
                                      !.intoxication_level = loc[t].level]]
    /\ sobering_tasks' =
          IF sobering_tasks[op[t].user].at = "none"
          THEN [sobering_tasks EXCEPT ![op[t].user].at = "sleep"]
          ELSE sobering_tasks
    /\ pc' = [pc EXCEPT ![t] = "find"]
    /\ loc' = [loc EXCEPT ![t] = [NoLoc EXCEPT !.phase = "bar"]]
    /\ UNCHANGED <<lockId, holder, op, res, start, market, current_hour, now,
                   connected, spam, games, cds, sec>>

\* sober_up once its sleep is over: get_user answers (the account is there,
\* at the current schema version); above level 0 the task goes on to
\* update_bar_data, at level 0 it leaves sobering_tasks
SoberRead(u) ==
    /\ sobering_tasks[u].at = "sleep"
    /\ users[u] # NoUser /\ users[u].ver = CurrentSchemaVersion
    /\ sobering_tasks' =
          IF users[u].intoxication_level > 0
          THEN [sobering_tasks EXCEPT
                  ![u] = [at |-> "find",
                          level |-> Max(0, users[u].intoxication_level - 1),
                          doc |-> NoUser]]
          ELSE [sobering_tasks EXCEPT ![u] = NoTask]
    /\ UNCHANGED <<ledger, market, current_hour, now, connected, spam,
                   games, cds,
                   sec>>

\* sober_up, update_bar_data: get_user answers
SoberFind(u) ==
    /\ sobering_tasks[u].at = "find"
    /\ users[u] # NoUser /\ users[u].ver = CurrentSchemaVersion
    /\ sobering_tasks' = [sobering_tasks EXCEPT ![u].at = "write",
                                                ![u].doc = users[u]]
    /\ UNCHANGED <<ledger, market, current_hour, now, connected, spam,
                   games, cds,
                   sec>>

\* sober_up, update_bar_data: update_user writes the document read with the
\* lowered level; "Continue sobering if still intoxicated"
SoberWrite(u) ==
    /\ sobering_tasks[u].at = "write"
    /\ users' = [users EXCEPT
                   ![u] = [sobering_tasks[u].doc EXCEPT
                             !.bar = 1,
                             !.intoxication_level = sobering_tasks[u].level]]
    /\ sobering_tasks' =
          IF sobering_tasks[u].level > 0
          THEN [sobering_tasks EXCEPT ![u] = [NoTask EXCEPT !.at = "sleep"]]
          ELSE [sobering_tasks EXCEPT ![u] = NoTask]
    /\ UNCHANGED <<lockId, holder, pc, op, loc, res, start, market,
                   current_hour, now, connected, spam, games, cds, sec>>

\* ------------------------------------------------------------ the market
\* Prices are whole numbers of the model's price unit; a product with a
\* fraction is rounded down.  A change is a percentage.

Symbols == 1..NumStocks

\* the news samples the runs that follow prices draw from
NewsSets == {QuietNews, BusyNews}

\* "self._news_impact_cache.get(key, 0)" (0: gold, s: the stock s), in the
\* percent the changes are counted in
NewsImpact(cache, key) ==
    IF key \in DOMAIN cache THEN cache[key] \div 10 ELSE 0

\* random.uniform(-0.2, 0.2): the two ends, in hundredths
BaseSentiments == {-20, 20}
\* the draws of the price ticks: the middle of that range (what the
\* sentiment adds to a change is part of the changes drawn)
TickSentiments == {0}

\* what random.gauss, the sentiment term and the earnings surprise can add up
\* to in one tick: the draws that carry a price past either bound, a fall
\* beyond -100% and a tenfold rise
Changes == {-200, 1000}

\* random.randint(1000, 10000), in the model's volume unit
VolumeSteps == {1}

\* "price * (1 + change)"
NewPrice(p, c) == (p * (100 + c)) \div 100

\* faulty variant: only the lower bound is applied
ClampBelowOnly(lo, hi, x) == Max(lo, x)

\* "max(lo, min(hi, x))"
Clamp(lo, hi, x) == Max(lo, Min(hi, x))

\* base_price * STOCK_MIN_RATIO, base_price * STOCK_MAX_RATIO
\* (the smallest and the largest whole price inside the two bounds)
MinStockPrice == (BasePrice + (StockMinRatioDen - 1)) \div StockMinRatioDen
MaxStockPrice == BasePrice * StockMaxRatio

RECURSIVE SumVolume(_, _)
\* sum(stock["volume"] for stock in self.stocks.values())
SumVolume(stocks, S) ==
    IF S = {} THEN 0
    ELSE LET s == CHOOSE x \in S : TRUE
         IN stocks[s].volume + SumVolume(stocks, S \ {s})

\* faulty variant: the statements in another order, previous_price and the
\* day's high and low being assigned after and before the price
UpdateStockOutOfOrder(m, s, c, v) ==
    LET stock == m.stocks[s]
        price == Clamp(MinStockPrice, MaxStockPrice,
                       NewPrice(stock.price,
                                c + NewsImpact(m.news_impact_cache, s)))
    IN [price |-> price,
        previous_price |-> price,
        day_high |-> Max(stock.day_high, stock.price),
        day_low |-> Min(stock.day_low, stock.price),
        volume |-> stock.volume + v]

\* the body of update_prices for one stock, with random change c and volume v
UpdateStock(m, s, c, v) ==
    LET stock == m.stocks[s]
        price == Clamp(MinStockPrice, MaxStockPrice,
                       NewPrice(stock.price,
                                c + NewsImpact(m.news_impact_cache, s)))
    IN [price |-> price,
        previous_price |-> stock.price,
        day_high |-> Max(stock.day_high, price),
        day_low |-> Min(stock.day_low, price),
        volume |-> stock.volume + v]

\* faulty variant: the daily volume is summed before the stocks are updated
UpdatePricesStaleVolume(m, gc, sc, vs) ==
    LET gold_change == (gc + ((m.gold_demand * 5) \div 10))
                          + NewsImpact(m.news_impact_cache, 0)
        stocks == [s \in Symbols |-> UpdateStock(m, s, sc[s], vs[s])]
    IN [m EXCEPT !.gold_price = Clamp(MinGoldPrice, MaxGoldPrice,
                                      NewPrice(m.gold_price, gold_change)),
                 !.stocks = stocks,
                 !.daily_volume = SumVolume(m.stocks, Symbols)]

\* faulty variant: the tick adds to gold_demand
UpdatePricesAddingDemand(m, gc, sc, vs) ==
    [m EXCEPT !.gold_demand = m.gold_demand + 1]

\* MarketSystem.update_prices past its market_open test
UpdatePrices(m, gc, sc, vs) ==
    LET gold_change == (gc + ((m.gold_demand * 5) \div 10))
                          + NewsImpact(m.news_impact_cache, 0)
        stocks == [s \in Symbols |-> UpdateStock(m, s, sc[s], vs[s])]
    IN [m EXCEPT !.gold_price = Clamp(MinGoldPrice, MaxGoldPrice,
                                      NewPrice(m.gold_price, gold_change)),
                 !.stocks = stocks,
                 !.daily_volume = SumVolume(stocks, Symbols)]

\* faulty variant: the tick does not look at market_open
TickRunsAlways(m) == TRUE

\* "if self.market.market_open:" / "if not self.market_open: return"
TickRuns(m) == m.market_open

\* one run of the update_market_prices loop
UpdateMarketPrices ==
    /\ IF TickRuns(market)
       THEN \E base \in TickSentiments, gc \in Changes,
               sc \in [Symbols -> Changes], vs \in [Symbols -> VolumeSteps] :
               /\ \A s \in Symbols :
                     market.stocks[s].volume + vs[s] <= MaxVolume
               /\ market' = UpdatePrices(CalculateMarketSentiment(market, base),
                                         gc, sc, vs)
       ELSE market' = market
    /\ UNCHANGED <<ledger, connected, sobering_tasks, spam, games,
                   current_hour,
                   now, cds, sec>>

\* faulty variant: the daily statistics are kept when the market opens
KeepDailyStats(stock) == stock

\* "Reset daily stats" of one stock
ResetDailyStats(stock) ==
    [stock EXCEPT !.day_high = stock.price, !.day_low = stock.price,
                  !.volume = 0]

\* the trading-hours test of manage_market_hours
TradingHour(h) == OpenHour <= h /\ h < CloseHour

\* the opening branch of manage_market_hours, drawing news sample n
OpenMarket(m, n) ==
    [GenerateNewsEvents(m, n) EXCEPT
              !.market_open = TRUE,
              !.stocks = [s \in Symbols |-> ResetDailyStats(m.stocks[s])],
              !.daily_volume = 0]

\* one run of the manage_market_hours loop, the clock showing hour h and
\* the news being drawn from samples
ManageHours(h, samples) ==
    /\ current_hour' = h
    /\ IF TradingHour(h)
       THEN IF ~market.market_open
            THEN \E n \in samples : market' = OpenMarket(market, n)
            ELSE market' = market
       ELSE IF market.market_open
            THEN market' = [market EXCEPT !.market_open = FALSE]
            ELSE market' = market
    /\ UNCHANGED <<ledger, connected, sobering_tasks, spam, games, now,
                   cds, sec>>

ManageMarketHours(h) == ManageHours(h, NewsSets)

\* ------------------------------------------------------------- cooldowns

\* time passes
AdvanceTime ==
    /\ now < MaxNow
    /\ now' = now + 1
    /\ UNCHANGED <<ledger, connected, sobering_tasks, spam, games, market,
                   current_hour, cds, sec>>

\* set_cooldown: upsert of created_at = datetime.now()
SetCooldown(u, c) ==
    /\ cooldowns' = IF StoreDown(connected) THEN cooldowns
                    ELSE [cooldowns EXCEPT ![u][c] = now]
    /\ set_at' = IF StoreDown(connected) THEN set_at
                 ELSE [set_at EXCEPT ![u][c] = now]
    /\ UNCHANGED <<ledger, connected, sobering_tasks, spam, games, market,
                   current_hour, now, checked, sec>>

\* faulty variant: the remaining time is the whole window
RemainingWholeWindow(created_at, t, window) ==
    IF created_at # -1 /\ t - created_at < window THEN window ELSE -1

\* check_cooldown past find_one: the remaining time, or None (-1)
Remaining(created_at, t, window) ==
    IF created_at # -1 /\ t - created_at < window
    THEN window - (t - created_at)
    ELSE -1

\* check_cooldown(user_id, command, cooldown_seconds)
CheckCooldown(u, c, w) ==
    /\ checked' = [user |-> u, command |-> c, window |-> w, at |-> now,
                   value |-> IF StoreDown(connected) THEN -1
                             ELSE Remaining(cooldowns[u][c], now, w)]
    /\ UNCHANGED <<ledger, connected, sobering_tasks, spam, games, market,
                   current_hour, now, cooldowns, set_at, sec>>

\* the store's TTL monitor deletes a record whose created_at is
\* expireAfterSeconds or more in the past
ExpireCooldown(u, c) ==
    /\ cooldowns[u][c] # -1
    /\ now - cooldowns[u][c] >= CooldownTTL
    /\ cooldowns' = [cooldowns EXCEPT ![u][c] = -1]
    /\ UNCHANGED <<ledger, connected, sobering_tasks, spam, games, market,
                   current_hour, now, checked, set_at, sec>>

\* the work command is called: check_cooldown's find_one is awaited; without
\* the store every call in it returns at once and nothing is stored
StartWork(t, u) ==
    /\ pc[t] = "idle"
    /\ \A s \in Tasks : s < t => pc[s] # "idle"
    /\ op' = [op EXCEPT ![t] = [NoOp EXCEPT !.kind = "work", !.user = u]]
    /\ IF StoreDown(connected)
       THEN /\ pc' = [pc EXCEPT ![t] = "done"]
            /\ res' = [res EXCEPT ![t] =
                         [NoRes EXCEPT !.ok = TRUE,
                                       !.wallet = DefaultUser.wallet,
                                       !.bank = DefaultUser.bank]]
       ELSE /\ pc' = [pc EXCEPT ![t] = "wk_check"]
            /\ UNCHANGED res
    /\ UNCHANGED <<users, lockId, holder, loc, start, others>>

\* work: check_cooldown answers; "if remaining:" refuses, else get_user
WorkCheck(t) ==
    /\ pc[t] = "wk_check"
    /\ LET r == Remaining(cooldowns[op[t].user]["work"], now, WorkCooldown)
       IN IF r > 0
          THEN /\ pc' = [pc EXCEPT ![t] = "done"]
               /\ res' = [res EXCEPT ![t] = [NoRes EXCEPT !.why = "cooldown"]]
               /\ UNCHANGED loc
          ELSE /\ pc' = [pc EXCEPT ![t] = "find"]
               /\ loc' = [loc EXCEPT ![t] = [NoLoc EXCEPT !.phase = "work"]]
               /\ UNCHANGED res
    /\ UNCHANGED <<users, lockId, holder, op, start, others>>

\* work: set_cooldown's update_one answers, the command reports the payout
WorkSetCooldown(t) ==
    /\ pc[t] = "wk_set"
    /\ cooldowns' = [cooldowns EXCEPT ![op[t].user]["work"] = now]
    /\ set_at' = [set_at EXCEPT ![op[t].user]["work"] = now]
    /\ pc' = [pc EXCEPT ![t] = "done"]
    /\ res' = [res EXCEPT ![t].ok = TRUE]
    /\ UNCHANGED <<users, lockId, holder, op, loc, start, market,
                   current_hour, now, connected, sobering_tasks, spam, games,
                   checked, sec>>

\* a game is called with its bet: the usage text for no bet, the cooldown
\* and rate check, high_low's own "bet <= 0" test, then "await db.get_user".
\* The way the game will end is drawn here; it depends on no state.
StartGame(t, u, g, bet, outcome) ==
    /\ pc[t] = "idle"
    /\ \A s \in Tasks : s < t => pc[s] # "idle"
    /\ outcome = "timeout" => g = "highlow"
    /\ op' = [op EXCEPT ![t] = [NoOp EXCEPT !.kind = g, !.user = u,
                                             !.amount = bet,
                                             !.outcome = outcome]]
    /\ IF bet = 0
       THEN /\ pc' = [pc EXCEPT ![t] = "done"]
            /\ res' = [res EXCEPT ![t] = [NoRes EXCEPT !.why = "usage"]]
            /\ UNCHANGED <<loc, games>>
       ELSE LET c == CheckGameCooldown(game_cooldowns, game_counts, u, g, now)
            IN /\ game_counts' = c.counts
               /\ UNCHANGED game_cooldowns
               /\ IF ~c.ok
                  THEN /\ pc' = [pc EXCEPT ![t] = "done"]
                       /\ res' = [res EXCEPT
                                    ![t] = [NoRes EXCEPT !.why = "cooldown"]]
                       /\ UNCHANGED loc
                  ELSE IF g = "highlow" /\ bet <= 0
                  THEN /\ pc' = [pc EXCEPT ![t] = "done"]
                       /\ res' = [res EXCEPT ![t] = [NoRes EXCEPT !.why = "bet"]]
                       /\ UNCHANGED loc
                  ELSE /\ pc' = [pc EXCEPT ![t] = "find"]
                       /\ loc' = [loc EXCEPT
                                    ![t] = [NoLoc EXCEPT !.phase = "game"]]
                       /\ UNCHANGED res
    /\ UNCHANGED <<users, lockId, holder, start, market, current_hour, now,
                   connected, sobering_tasks, spam, cds, sec>>

\* high_low: the player reacts and the game is settled by update_balance,
\* or wait_for times out and the bet is left alone
GameReact(t) ==
    /\ pc[t] = "gm_wait"
    /\ IF op[t].outcome = "timeout"
       THEN /\ pc' = [pc EXCEPT ![t] = "done"]
            /\ res' = [res EXCEPT ![t] = [NoRes EXCEPT !.why = "timeout"]]
            /\ UNCHANGED <<loc, holder>>
       ELSE /\ CallUpdate(t, holder, loc[t], op[t].user,
                          GameChange(op[t].kind, op[t].outcome, op[t].amount),
                          0, "highlow")
            /\ UNCHANGED res
    /\ RegisterLock(t)
    /\ UNCHANGED <<users, op, start, others>>

\* high_low: the result message is edited, then set_game_cooldown
GameEdit(t) ==
    /\ pc[t] = "gm_edit"
    /\ SetGameCooldown(op[t].user, "highlow")
    /\ pc' = [pc EXCEPT ![t] = "done"]
    /\ res' = [res EXCEPT ![t].ok = TRUE]
    /\ UNCHANGED <<users, lockId, holder, op, loc, start, market,
                   current_hour, now, connected, sobering_tasks, spam, cds,
                   sec>>

\* ------------------------------------------------------ the trade limiter

FreshLimit(t) == [count |-> 0, last_reset |-> t, volume |-> 0]

MaxOrder(a) == IF a = "stock" THEN MaxStockOrder ELSE MaxGoldOrder

\* faulty variant: one trade more than the cap gets through
DailyCapReachedLate(count) == count > DailyTradeCap

\* "if self.trade_limits[key]["count"] >= 100"
DailyCapReached(count) == count >= DailyTradeCap

\* "[t for t in ... if now - t < 300]"
RecentTrades(times, t) == SelectSeq(times, LAMBDA x : t - x < RapidWindow)

\* check_trade_limit at time t: the answer, and the two dictionaries as it
\* leaves them (it has no await: it runs without interleaving)
CheckTradeLimit(limits, activity, u, a, amount, t) ==
    LET k0 == IF limits[u][a] = NoLimit THEN FreshLimit(t) ELSE limits[u][a]
        k1 == IF t - k0.last_reset > DayLength THEN FreshLimit(t) ELSE k0
        limits1 == [limits EXCEPT ![u][a] = k1]
        recent == RecentTrades(activity[u], t)
    IN IF DailyCapReached(k1.count) \/ amount > MaxOrder(a)
       THEN [ok |-> FALSE, limits |-> limits1, activity |-> activity]
       ELSE IF Len(recent) >= RapidCap
       THEN [ok |-> FALSE, limits |-> limits1,
             activity |-> [activity EXCEPT ![u] = recent]]
       ELSE [ok |-> TRUE,
             limits |-> [limits EXCEPT
                           ![u][a] = [k1 EXCEPT !.count = k1.count + 1,
                                                !.volume = k1.volume + amount]],
             activity |-> [activity EXCEPT ![u] = Append(recent, t)]]

\* one call of check_trade_limit; accepted keeps the calls it let through
CheckTrade(u, a, amount) ==
    LET c == CheckTradeLimit(trade_limits, suspicious_activity, u, a, amount,
                             now)
    IN /\ trade_limits' = c.limits
       /\ suspicious_activity' = c.activity
       /\ accepted' = IF c.ok
                      THEN Append(accepted, [user |-> u, asset |-> a,
                                             amount |-> amount, at |-> now])
                      ELSE accepted
       /\ UNCHANGED <<ledger, connected, sobering_tasks, spam, games, market,
                   current_hour, now, cds,
                      news_cooldowns>>

\* _cleanup_old_cooldowns, as far as the trade limiter goes: keys two days
\* old are dropped, rapid-trade times an hour old are dropped
CleanupTradeRecords ==
    /\ trade_limits' =
          [u \in Users |-> [a \in AssetTypes |->
              IF /\ trade_limits[u][a] # NoLimit
                 /\ now - trade_limits[u][a].last_reset < DayLength * 2
              THEN trade_limits[u][a] ELSE NoLimit]]
    /\ suspicious_activity' =
          [u \in Users |->
              SelectSeq(suspicious_activity[u],
                        LAMBDA x : now - x < HourLength)]

CleanupOldCooldowns ==
    /\ CleanupTradeRecords
    /\ UNCHANGED <<ledger, connected, sobering_tasks, spam, games, market,
                   current_hour, now, cds,
                   news_cooldowns, accepted>>

\* check_news_cooldown: no key, or the time stored has come
NewsCooldownOver == news_cooldowns = -1 \/ news_cooldowns - now <= 0

\* the force_news command up to its reply, the sample drawn being n: nothing
\* is awaited between the cooldown check, generate_news_events and
\* set_news_cooldown, which ends with _cleanup_old_cooldowns (the key just
\* set is never a day old)
ForceNews(n) ==
    /\ NewsCooldownOver
    /\ market' = GenerateNewsEvents(market, n)
    /\ news_cooldowns' = now + NewsCooldown
    /\ CleanupTradeRecords
    /\ UNCHANGED <<ledger, connected, sobering_tasks, spam, games,
                   current_hour,
                   now, cds, accepted>>

\* total_cost + fee, the fee rounded down to the model's money unit
TotalWithFee(price, amount, permille) ==
    (price * amount) + (((price * amount) * permille) \div 1000)

\* the price buy_investment reads for the order
OrderCost(m, a, sym, amount) ==
    IF a = "stock"
    THEN TotalWithFee(m.stocks[sym].price, amount, StockFeePermille)
    ELSE TotalWithFee(m.gold_price, amount, GoldFeePermille)

\* buy_investment up to "await db.get_user": the checks on the order, the
\* trade limiter and the cost at the current price
StartBuy(t, u, a, sym, amount) ==
    /\ pc[t] = "idle"
    /\ \A s \in Tasks : s < t => pc[s] # "idle"
    /\ op' = [op EXCEPT ![t] = [NoOp EXCEPT !.kind = "buy", !.user = u,
                                             !.asset = a, !.symbol = sym,
                                             !.amount = amount]]
    /\ IF ~market.market_open \/ amount <= 0
       THEN /\ pc' = [pc EXCEPT ![t] = "done"]
            /\ res' = [res EXCEPT ![t] = [NoRes EXCEPT !.why = "closed"]]
            /\ UNCHANGED <<loc, sec>>
       ELSE LET c == CheckTradeLimit(trade_limits, suspicious_activity, u, a,
                                     amount, now)
            IN /\ trade_limits' = c.limits
               /\ suspicious_activity' = c.activity
               /\ IF c.ok
                  THEN /\ accepted' = Append(accepted,
                                             [user |-> u, asset |-> a,
                                              amount |-> amount, at |-> now])
                       /\ pc' = [pc EXCEPT ![t] = "find"]
                       /\ loc' = [loc EXCEPT ![t] =
                                    [NoLoc EXCEPT
                                       !.phase = "buy",
                                       !.cost = OrderCost(market, a, sym,
                                                          amount)]]
                       /\ UNCHANGED res
                  ELSE /\ pc' = [pc EXCEPT ![t] = "done"]
                       /\ res' = [res EXCEPT
                                    ![t] = [NoRes EXCEPT !.why = "limit"]]
                       /\ UNCHANGED <<loc, accepted>>
    /\ UNCHANGED <<users, lockId, holder, start, market, current_hour, now,
                   connected, sobering_tasks, spam, games, cds,
                   news_cooldowns>>

\* ------------------------------------------------------ the message filter

\* the users that write messages: one more than the tracker is meant to hold
Senders == 1..(MaxTrackedUsers + 1)

RECURSIVE LastActivity(_)
\* "max(timestamps)" if there are any, else 0
LastActivity(timestamps) ==
    IF timestamps = << >> THEN 0
    ELSE Max(Head(timestamps), LastActivity(Tail(timestamps)))

\* _cleanup_old_entries at time t: times older than the cutoff are dropped,
\* then the users left without a time
CleanupOldEntries(tracker, t) ==
    LET cutoff == t - TrackerMaxAge
        filtered == [i \in DOMAIN tracker |->
                       [tracker[i] EXCEPT
                          !.times = SelectSeq(@, LAMBDA x : x > cutoff)]]
    IN SelectSeq(filtered, LAMBDA e : e.times # << >>)

\* _evict_oldest_entries: a tenth of the users, at least one, are removed,
\* those with the oldest last activity first (sorted is stable: among equals
\* the key inserted first)
EvictOldestEntries(tracker) ==
    IF Len(tracker) <= MaxTrackedUsers THEN tracker
    ELSE LET entries_to_remove == Max(1, Len(tracker) \div 10)
             Before(j, i) ==
                 \/ LastActivity(tracker[j].times)
                       < LastActivity(tracker[i].times)
                 \/ /\ LastActivity(tracker[j].times)
                         = LastActivity(tracker[i].times)
                    /\ j < i
             removed == {tracker[i].user :
                           i \in {k \in DOMAIN tracker :
                                    Cardinality({j \in DOMAIN tracker :
                                                   Before(j, k)})
                                      < entries_to_remove}}
         IN SelectSeq(tracker, LAMBDA e : e.user \notin removed)

\* "if len(self.spam_tracker) > self._max_tracker_size:"
TrackerFull(tracker) == Len(tracker) > MaxTrackedUsers

\* the times of user u in the tracker, none if u has no key
TimesOf(tracker, u) ==
    IF \E i \in DOMAIN tracker : tracker[i].user = u
    THEN tracker[CHOOSE i \in DOMAIN tracker : tracker[i].user = u].times
    ELSE << >>

\* is_spam(u) at the current time.  A user is followed up to the call that
\* answers True (more than SPAM_LIMIT times within the timeframe).
IsSpam(u) ==
    LET cleanup == now - last_cleanup > CleanupInterval
        cleaned == IF cleanup THEN CleanupOldEntries(spam_tracker, now)
                   ELSE spam_tracker
        limited == IF TrackerFull(cleaned) THEN EvictOldestEntries(cleaned)
                   ELSE cleaned
        keyed == IF \E i \in DOMAIN limited : limited[i].user = u
                 THEN limited
                 ELSE Append(limited, [user |-> u, times |-> << >>])
        recent == SelectSeq(TimesOf(keyed, u),
                            LAMBDA x : now - x < SpamTimeframe)
    IN /\ Len(recent) <= SpamLimit
       /\ spam_tracker' =
             [i \in DOMAIN keyed |->
                IF keyed[i].user = u
                THEN [keyed[i] EXCEPT !.times = Append(recent, now)]
                ELSE keyed[i]]
       /\ last_cleanup' = IF cleanup THEN now ELSE last_cleanup
       /\ UNCHANGED <<ledger, market, current_hour, now, connected,
                      sobering_tasks, games, cds, sec>>

\* _periodic_cleanup wakes up
PeriodicCleanup ==
    /\ spam_tracker' = CleanupOldEntries(spam_tracker, now)
    /\ UNCHANGED <<ledger, market, current_hour, now, connected,
                   sobering_tasks, last_cleanup, games, cds, sec>>

\* ------------------------------------------------------- specifications

\* inputs of the concurrent runs
CallDeltas == {-1, 1}
CallAmounts == {0, 1}

TaskStep(t) ==
    \/ AcquireUserLock(t)
    \/ FindUser(t)
    \/ InsertUser(t)
    \/ MigrateUser(t)
    \/ WriteBalance(t)
    \/ AcquireFirstLock(t)
    \/ AcquireSecondLock(t)
    \/ WriteBarData(t)

Next ==
    \/ \E t \in Tasks, u \in Users, wc \in CallDeltas :
          StartUpdateBalance(t, u, wc, 0)
    \/ \E t \in Tasks, from \in Users, to \in Users, amount \in CallAmounts :
          StartTransfer(t, from, to, amount)
    \/ \E t \in Tasks, u \in Users : StartBarUpdate(t, u)
    \/ \E t \in Tasks : TaskStep(t)

Spec == Init /\ [][Next]_vars

\* the asyncio event loop runs every task that is ready
LiveSpec == Spec /\ \A t \in Tasks : WF_vars(TaskStep(t))

\* One caller at a time, every argument: the account of user 1 starts anywhere
\* within its limits.  With a single task no lock is ever waited for and then
\* obtained, so the three Acquire steps are never enabled.
LedgerInit ==
    /\ users \in [Users -> InitAccounts \cup {NoUser}]
    /\ \A u \in Users \ {1} : users[u] \in CallAccounts \cup {NoUser}
    /\ InitProcess

LedgerStep(t) ==
    \/ FindUser(t)
    \/ InsertUser(t)
    \/ MigrateUser(t)
    \/ WriteBalance(t)
    \/ WriteBarData(t)

LedgerNext ==
    \/ \E u \in Users, wc \in Deltas, bc \in Deltas :
          StartUpdateBalance(1, u, wc, bc)
    \/ \E from \in Users, to \in Users, amount \in Amounts :
          StartTransfer(1, from, to, amount)
    \/ \E u \in Users : StartBarUpdate(1, u)
    \/ LedgerStep(1)

LedgerSpec == LedgerInit /\ [][LedgerNext]_vars

\* Concurrent callers of update_balance(u, -1, 0) and nothing else, against
\* wallets that start at NumTasks: the transfer and bar-data steps are never
\* enabled.
SpendInit ==
    /\ users \in [Users -> {a \in CallAccounts : a.wallet = NumTasks}
                               \cup {NoUser}]
    /\ InitProcess

SpendStep(t) ==
    \/ AcquireUserLock(t)
    \/ FindUser(t)
    \/ InsertUser(t)
    \/ MigrateUser(t)
    \/ WriteBalance(t)

SpendNext ==
    \/ \E t \in Tasks, u \in Users : StartUpdateBalance(t, u, -1, 0)
    \/ \E t \in Tasks : SpendStep(t)

SpendSpec == SpendInit /\ [][SpendNext]_vars

\* One caller of update_balance whose write to the store may fail.
FaultStep(t) ==
    \/ AcquireUserLock(t)
    \/ FindUser(t)
    \/ InsertUser(t)
    \/ MigrateUser(t)
    \/ WriteBalance(t)
    \/ WriteBalanceFails(t)

FaultNext ==
    \/ \E t \in Tasks, u \in Users, wc \in CallDeltas :
          StartUpdateBalance(t, u, wc, 0)
    \/ \E t \in Tasks : FaultStep(t)

FaultSpec == Init /\ [][FaultNext]_vars

\* One caller of update_balance whose read of the account may fail.
ReadFaultStep(t) ==
    \/ FindUser(t)
    \/ FindUserFails(t)
    \/ InsertUser(t)
    \/ MigrateUser(t)
    \/ WriteBalance(t)

ReadFaultNext ==
    \/ \E u \in Users, wc \in Deltas, bc \in Deltas :
          StartUpdateBalance(1, u, wc, bc)
    \/ ReadFaultStep(1)

ReadFaultSpec == LedgerInit /\ [][ReadFaultNext]_vars

\* the event loop runs every task that is ready
FaultLiveSpec == FaultSpec /\ \A t \in Tasks : WF_vars(FaultStep(t))

\* The market alone: the two loops of MarketCog and the clock.  The hours the
\* clock is read at are the ones around the two ends of the trading window.
ClockHours == {OpenHour - 1, OpenHour, CloseHour - 1, CloseHour}

MarketInit ==
    /\ users = [u \in Users |-> NoUser]
    /\ InitTasks
    /\ market \in {MarketSystem(n) : n \in NewsSets}
    /\ current_hour = -1
    /\ InitCooldowns
    /\ InitSecurity

MarketNext ==
    \/ UpdateMarketPrices
    \/ \E h \in ClockHours : ManageMarketHours(h)

MarketSpec == MarketInit /\ [][MarketNext]_vars

\* The cooldown records of one user alone (a record is keyed by user and
\* command), for every window from 1 to MaxWindow.
CooldownInit ==
    /\ users = [u \in Users |-> NoUser]
    /\ InitProcess

CooldownNext ==
    \/ AdvanceTime
    \/ \E c \in Commands : SetCooldown(1, c)
    \/ \E c \in Commands, w \in 1..MaxWindow : CheckCooldown(1, c, w)
    \/ \E c \in Commands : ExpireCooldown(1, c)

CooldownSpec == CooldownInit /\ [][CooldownNext]_vars

\* Buy orders against an open market.  The market is in its second trading
\* day, after a first day whose one tick took every price to its lower bound,
\* so that an account within its bank limit can pay for an order.
LowMarket ==
    LET day1 == UpdatePrices(OpenMarket(MarketSystem(QuietNews), QuietNews), -200,
                             [s \in Symbols |-> -200], [s \in Symbols |-> 1])
    IN OpenMarket([day1 EXCEPT !.market_open = FALSE], QuietNews)

\* the accounts the buyers start from
TradeAccounts ==
    {a \in InitAccounts : /\ a.wallet = 0
                          /\ a.bank \in 0..BankLimit
                          /\ a.ver = CurrentSchemaVersion}

TradeInit ==
    /\ \E a \in TradeAccounts : users = [u \in Users |-> a]
    /\ InitTasks
    /\ market = LowMarket
    /\ current_hour = OpenHour
    /\ InitCooldowns
    /\ InitSecurity

\* the sizes of the orders: the smallest, and one above MAX_STOCK_ORDER
OrderAmounts == {1, MaxStockOrder + 1}

TradeStep(t) ==
    \/ AcquireUserLock(t)
    \/ FindUser(t)
    \/ WriteBalance(t)

TradeNext ==
    \/ \E t \in Tasks, u \in Users, sym \in Symbols, amount \in OrderAmounts :
          StartBuy(t, u, "stock", sym, amount)
    \/ \E t \in Tasks, u \in Users, amount \in OrderAmounts :
          StartBuy(t, u, "gold", 0, amount)
    \/ \E t \in Tasks : TradeStep(t)

TradeSpec == TradeInit /\ [][TradeNext]_vars

\* Buy orders next to a payout into the same accounts, which may still be at
\* the old schema version.
ShopAccounts ==
    {a \in InitAccounts : a.wallet = 0 /\ a.bank \in {0, BankLimit}}

ShopInit ==
    /\ \E a \in ShopAccounts : users = [u \in Users |-> a]
    /\ InitTasks
    /\ market = LowMarket
    /\ current_hour = OpenHour
    /\ InitCooldowns
    /\ InitSecurity

ShopStep(t) ==
    \/ AcquireUserLock(t)
    \/ FindUser(t)
    \/ MigrateUser(t)
    \/ WriteBalance(t)

ShopNext ==
    \/ \E t \in Tasks, u \in Users, sym \in Symbols, amount \in OrderAmounts :
          StartBuy(t, u, "stock", sym, amount)
    \/ \E t \in Tasks, u \in Users, amount \in OrderAmounts :
          StartBuy(t, u, "gold", 0, amount)
    \/ \E t \in Tasks, u \in Users : StartUpdateBalance(t, u, 1, 0)
    \/ \E t \in Tasks : ShopStep(t)

ShopSpec == ShopInit /\ [][ShopNext]_vars

\* The store was never reached (cog_load gave up): it holds accounts and
\* cooldown records, and the commands run without it.
OfflineInit ==
    /\ \E a \in CallAccounts \cup {NoUser} : users = [u \in Users |-> a]
    /\ InitLocals
    /\ connected = FALSE
    /\ market = MarketSystem(QuietNews)
    /\ current_hour = -1
    /\ now = 0
    /\ \E r \in {-1, 0} : cooldowns = [u \in Users |-> [c \in Commands |-> r]]
    /\ checked = NoCheck
    /\ set_at = cooldowns
    /\ InitSecurity

OfflineNext ==
    \/ \E t \in Tasks, u \in Users : StartGetUser(t, u)
    \/ \E t \in Tasks, u \in Users, wc \in CallDeltas :
          StartUpdateBalance(t, u, wc, 0)
    \/ \E u \in Users, c \in Commands, w \in 1..MaxWindow :
          CheckCooldown(u, c, w)

OfflineSpec == OfflineInit /\ [][OfflineNext]_vars

\* Work commands of one member as time passes, the wallet empty at first.
WorkInit ==
    /\ users = [u \in Users |-> [DefaultUser EXCEPT !.wallet = 0,
                                                     !.networth = 0]]
    /\ InitProcess

WorkStep(t) ==
    \/ WorkCheck(t)
    \/ FindUser(t)
    \/ AcquireUserLock(t)
    \/ WriteBalance(t)
    \/ WorkSetCooldown(t)

WorkNext ==
    \/ AdvanceTime
    \/ \E t \in Tasks : StartWork(t, 1)
    \/ \E t \in Tasks : WorkStep(t)
    \/ ExpireCooldown(1, "work")

WorkSpec == WorkInit /\ [][WorkNext]_vars

\* Games of one player, one after the other and at the same time.
GameAccounts ==
    {a \in InitAccounts : /\ a.wallet \in 1..2
                          /\ a.bank = 0
                          /\ a.ver = CurrentSchemaVersion}

GameInit ==
    /\ \E a \in GameAccounts : users = [u \in Users |-> a]
    /\ InitProcess

\* the bets a player names: none, and the smallest
Bets == {0, MinBet}

\* the clock, followed until the first cooldown has run out
GameTick == now <= GameCooldown /\ AdvanceTime

GameStep(t) ==
    \/ FindUser(t)
    \/ GameReact(t)
    \/ AcquireUserLock(t)
    \/ WriteBalance(t)
    \/ GameEdit(t)

GameNext ==
    \/ GameTick
    \/ \E t \in Tasks, g \in Games, bet \in Bets, o \in Outcomes :
          StartGame(t, 1, g, bet, o)
    \/ \E t \in Tasks : GameStep(t)

GameSpec == GameInit /\ [][GameNext]_vars

\* The trade limiter alone: the calls of check_trade_limit for one user as
\* time passes (its keys and lists are per user).
LimiterInit ==
    /\ users = [u \in Users |-> NoUser]
    /\ InitProcess

LimiterNext ==
    \/ AdvanceTime
    \/ \E a \in AssetTypes, amount \in OrderAmounts :
          CheckTrade(1, a, amount)
    \/ CleanupOldCooldowns

LimiterSpec == LimiterInit /\ [][LimiterNext]_vars

\* The news alone: the market opens and closes and an administrator forces
\* news as time passes, every sample of the pool being drawn.  (The price
\* tick assigns none of news_events, market_trend and the impact cache.)
NewsInit ==
    /\ users = [u \in Users |-> NoUser]
    /\ InitTasks
    /\ market \in {MarketSystem(n) : n \in NewsSamples}
    /\ current_hour = -1
    /\ InitCooldowns
    /\ InitSecurity

\* the clock is followed until the first cooldown has run out
NewsTick == now < NewsCooldown /\ AdvanceTime

NewsNext ==
    \/ NewsTick
    \/ \E h \in {OpenHour, CloseHour} : ManageHours(h, NewsSamples)
    \/ \E n \in NewsSamples : ForceNews(n)

NewsSpec == NewsInit /\ [][NewsNext]_vars

\* The bar: orders of one user, one after the other and at the same time,
\* and the user's sober_up task.  The account can pay for every order.
BarAccounts ==
    {a \in InitAccounts : /\ a.wallet = WalletLimit
                          /\ a.bank = 0
                          /\ a.ver = CurrentSchemaVersion}

BarInit ==
    /\ \E a \in BarAccounts : users = [u \in Users |-> a]
    /\ InitProcess

BarStep(t) ==
    \/ FindUser(t)
    \/ AcquireUserLock(t)
    \/ WriteBalance(t)
    \/ ApplyWrite(t)
    \/ WriteBarData(t)

\* two orders are followed
BarTasks == {1, 2}

BarNext ==
    \/ \E t \in BarTasks, key \in Menu : StartOrder(t, 1, key)
    \/ \E t \in BarTasks : BarStep(t)
    \/ SoberRead(1)
    \/ SoberFind(1)
    \/ SoberWrite(1)

BarSpec == BarInit /\ [][BarNext]_vars

\* The message filter alone: messages of the senders as time passes, and the
\* periodic cleanup.
SpamInit ==
    /\ users = [u \in Users |-> NoUser]
    /\ InitProcess

\* the clock is followed until a time of the first instant has been
\* dropped by a cleanup
SpamTick == now <= TrackerMaxAge /\ AdvanceTime

SpamNext ==
    \/ SpamTick
    \/ \E u \in Senders : IsSpam(u)
    \/ PeriodicCleanup

SpamSpec == SpamInit /\ [][SpamNext]_vars

\* calculate_market_sentiment alone, as a function of what it reads: the
\* three economic indicators at every level its thresholds tell apart (in
\* thousandths; __init__ sets 25, 35 and 28), and every news list with the
\* trend generate_news_events gave it.
IndicatorLevels == {15, 25, 35, 45}

SentimentInit ==
    /\ users = [u \in Users |-> NoUser]
    /\ InitTasks
    /\ market \in {[MarketSystem(n) EXCEPT !.inflation_rate = i,
                                           !.interest_rate = r,
                                           !.gdp_growth = g] :
                      n \in NewsSamples,
                      i \in IndicatorLevels, r \in IndicatorLevels,
                      g \in IndicatorLevels}
    /\ current_hour = -1
    /\ InitCooldowns
    /\ InitSecurity

SentimentNext ==
    /\ \E base \in BaseSentiments :
          market' = CalculateMarketSentiment(market, base)
    /\ UNCHANGED <<ledger, connected, sobering_tasks, spam, games,
                   current_hour,
                   now, cds, sec>>

SentimentSpec == SentimentInit /\ [][SentimentNext]_vars

\* ------------------------------------------------------------- the claims

Present(u) == users[u] # NoUser

\* task t has returned from a top-level update_balance call
CompletedUpdate(t) == pc[t] = "done" /\ op[t].kind = "ub"

\* C1: an account that starts within its limits has 0 <= wallet <=
\* wallet_limit after a completed update_balance, for every pair of deltas:
\* both the wallet stored and the wallet returned to the caller.
C1_WalletWithinLimit ==
    /\ \A u \in Users : Present(u) =>
          (0 <= users[u].wallet /\ users[u].wallet <= WalletLimit)
    /\ \A t \in Tasks : CompletedUpdate(t) =>
          (0 <= res[t].wallet /\ res[t].wallet <= WalletLimit)

\* C1 witness: a call whose naive wallet wallet + wallet_delta is negative has
\* completed and left the wallet at 0
C1_Witness ==
    \E t \in Tasks :
       /\ CompletedUpdate(t)
       /\ Present(op[t].user)
       /\ start[op[t].user] # NoUser
       /\ start[op[t].user].wallet + op[t].wc < 0
       /\ users[op[t].user].wallet = 0

\* C2: the bank stored by a completed update_balance satisfies
\* 0 <= bank <= bank_limit, also when bank_delta and redirected wallet
\* overflow raise the bank in the same call.
C2_BankWithinLimit ==
    \A u \in Users : Present(u) =>
       (0 <= users[u].bank /\ users[u].bank <= BankLimit)

\* C3: after any committed mutation the stored networth equals the stored
\* wallet plus the stored bank.
C3_Networth ==
    \A u \in Users : Present(u) =>
       users[u].networth = users[u].wallet + users[u].bank

\* C3 witness: an update_balance that changed both balances has committed
C3_Witness ==
    \E t \in Tasks :
       /\ CompletedUpdate(t)
       /\ start[op[t].user] # NoUser
       /\ users[op[t].user].wallet # start[op[t].user].wallet
       /\ users[op[t].user].bank # start[op[t].user].bank
       /\ users[op[t].user].networth # start[op[t].user].networth

\* the tasks inside the read-compute-write body of update_balance for user u
InFlight(u) ==
    {t \in Tasks : /\ pc[t] \in {"find", "insert", "migrate", "ub_write"}
                   /\ loc[t].phase = "ub"
                   /\ loc[t].cuser = u}

\* C4: at most one balance mutation is in flight for a user at any time, and
\* the task running it is the holder of that user's lock.
C4_OneInFlight ==
    \A u \in Users :
       /\ Cardinality(InFlight(u)) <= 1
       /\ \A t \in InFlight(u) : holder[u] = t

\* C4 witness: one update_balance is in its body while another call for the
\* same user waits for the lock
C4_Witness ==
    \E u \in Users, t1 \in Tasks, t2 \in Tasks :
       /\ t1 \in InFlight(u)
       /\ pc[t1] = "ub_write"
       /\ pc[t2] = "ub_lock"
       /\ loc[t2].cuser = u

\* task t was called as update_balance(u, -1, 0)
SpendsOne(t, u) == op[t] = [NoOp EXCEPT !.kind = "ub", !.user = u, !.wc = -1]

\* C5: when update_balance(u, -1, 0) is the only call made for user u and
\* the wallet of u started at N = NumTasks, the wallet is N minus the number
\* of completed calls for u in every state of every interleaving: never
\* negative, and exactly 0 once N calls have completed.
C5_NoDoubleSpend ==
    \A u \in Users :
       (/\ start[u] # NoUser
        /\ start[u].wallet = NumTasks
        /\ \A t \in Tasks :
              (pc[t] # "idle" /\ op[t].user = u) => SpendsOne(t, u))
       => /\ users[u].wallet >= 0
          /\ users[u].wallet =
                NumTasks - Cardinality({t \in Tasks : /\ pc[t] = "done"
                                                     /\ op[t].user = u})

\* C5 witness: all N calls have completed and the wallet is 0
C5_Witness ==
    \E u \in Users :
       /\ start[u] # NoUser
       /\ start[u].wallet = NumTasks
       /\ \A t \in Tasks : pc[t] = "done" /\ SpendsOne(t, u)
       /\ users[u].wallet = 0

Balances(d) == <<d.wallet, d.bank>>

\* C6: every step that changes a stored wallet or bank is the write of an
\* update_balance whose task holds that user's lock.
C6_WritesUnderLock ==
    [][\A u \in Users :
         (Present(u) /\ Balances(users'[u]) # Balances(users[u]))
         => /\ holder[u] # 0
            /\ pc[holder[u]] = "ub_write"
            /\ loc[holder[u]].cuser = u
            /\ pc'[holder[u]] # "ub_write"]_vars

\* the two users whose locks transfer t takes, in the order it takes them
Locks(t) == LockOrder(lockId, op[t].user, op[t].to)

Stored(d) == <<d.wallet, d.bank, d.networth, d.total_earned>>

\* task t takes a step
Moved(t) == pc'[t] # pc[t] \/ loc'[t] # loc[t]

\* C10: transfer returns (false, 0) when amount <= 0 or when the sender's
\* wallet, as read under the locks, is below amount; and no step of a
\* transfer outside its two update_balance calls changes the wallet, bank,
\* networth or total_earned of any stored account.
C10_FailedTransfer ==
    [][\A t \in Tasks :
         (Moved(t) /\ op'[t].kind = "tr") =>
            /\ loc[t].phase # "ub" =>
                  \A u \in Users :
                     Present(u) => Stored(users'[u]) = Stored(users[u])
            /\ (pc[t] = "idle" /\ op'[t].amount <= 0) =>
                  (pc'[t] = "done" /\ ~res'[t].ok /\ res'[t].amount = 0
                   /\ users' = users)
            /\ (/\ loc[t].phase = "to"
                /\ loc'[t].phase # "to"
                /\ loc[t].fromw < op[t].amount) =>
                  (pc'[t] = "done" /\ ~res'[t].ok /\ res'[t].amount = 0)]_vars

\* C10 witness: a transfer of a positive amount has returned (false, 0)
\* because the sender's wallet is smaller, and the accounts are as they were
C10_Witness ==
    \E t \in Tasks :
       /\ op[t].kind = "tr"
       /\ pc[t] = "done"
       /\ op[t].amount > 0
       /\ ~res[t].ok /\ res[t].amount = 0
       /\ op[t].user # op[t].to
       /\ Present(op[t].user) /\ Present(op[t].to)
       /\ users[op[t].user].wallet < op[t].amount
       /\ users = start

\* transfer t has found the sender able to pay and has called
\* update_balance_atomic(from_user, wallet_change=-amount)
AtDebit(t) ==
    /\ op[t].kind = "tr"
    /\ op[t].user # op[t].to
    /\ loc[t].ret = "debit"

\* C7: a transfer with from # to, amount > 0 and sender wallet >= amount
\* eventually returns (true, actual_amount).
C7_TransferReturns ==
    \A t \in Tasks : [](AtDebit(t) => <>(pc[t] = "done" /\ res[t].ok))

\* C9: a successful transfer returns min(amount, receiver wallet_limit -
\* receiver wallet): a transfer that has passed its checks eventually returns
\* that amount.
C9_ActualAmount ==
    \A t \in Tasks : \A a \in 0..MaxAmount :
       [](AtDebit(t) /\ Min(op[t].amount, WalletLimit - loc[t].tow) = a
            => <>(pc[t] = "done" /\ res[t].ok /\ res[t].amount = a))

\* task t is about to write the balances of a top-level update_balance that
\* raises wallet_delta only, past the wallet limit
WalletOverflows(t) ==
    /\ pc[t] = "ub_write"
    /\ loc[t].ret = "top"
    /\ loc[t].cwc > 0 /\ loc[t].cbc = 0
    /\ loc[t].doc.wallet + loc[t].cwc > WalletLimit

\* C11: update_balance with wallet_delta > 0, bank_delta = 0 and wallet +
\* wallet_delta > wallet_limit stores wallet = wallet_limit and raises the
\* bank by exactly min(overflow, bank_limit - bank); when the bank headroom
\* covers the overflow, wallet + bank grows by the whole wallet_delta.
C11_OverflowRedirected ==
    [][\A t \in Tasks :
         (WalletOverflows(t) /\ pc'[t] = "done") =>
            LET u == loc[t].cuser
                d == loc[t].doc
                overflow == (d.wallet + loc[t].cwc) - WalletLimit
            IN /\ users'[u].wallet = WalletLimit
               /\ res'[t].wallet = WalletLimit
               /\ users'[u].bank = d.bank + Min(overflow, BankLimit - d.bank)
               /\ res'[t].bank = users'[u].bank
               /\ (BankLimit - d.bank >= overflow) =>
                     users'[u].wallet + users'[u].bank
                        = (d.wallet + d.bank) + loc[t].cwc]_vars

\* C11 witness: a completed call whose wallet_delta overflowed the wallet
\* has left the wallet at its limit and the whole overflow in the bank
C11_Witness ==
    \E t \in Tasks :
       /\ CompletedUpdate(t)
       /\ op[t].wc > 0 /\ op[t].bc = 0
       /\ start[op[t].user] # NoUser
       /\ start[op[t].user].wallet + op[t].wc > WalletLimit
       /\ users[op[t].user].wallet = WalletLimit
       /\ users[op[t].user].bank > start[op[t].user].bank
       /\ users[op[t].user].networth
             = start[op[t].user].networth + op[t].wc

\* task t is about to write the balances of a top-level update_balance that
\* raises bank_delta only, past the bank limit
BankOverflows(t) ==
    /\ pc[t] = "ub_write"
    /\ loc[t].ret = "top"
    /\ loc[t].cwc = 0 /\ loc[t].cbc > 0
    /\ loc[t].doc.bank + loc[t].cbc > BankLimit

\* C12: update_balance with wallet_delta = 0, bank_delta > 0 and bank +
\* bank_delta > bank_limit stores bank = bank_limit, leaves the wallet alone,
\* and raises total_earned by exactly bank_limit - bank.
C12_BankOverflowDropped ==
    [][\A t \in Tasks :
         (BankOverflows(t) /\ pc'[t] = "done") =>
            LET u == loc[t].cuser
                d == loc[t].doc
            IN /\ users'[u].bank = BankLimit
               /\ users'[u].wallet = d.wallet
               /\ users'[u].total_earned
                     = users[u].total_earned + (BankLimit - d.bank)]_vars

\* C12 witness: a completed bank-only call that overflowed the bank has
\* raised total_earned by less than bank_delta
C12_Witness ==
    \E t \in Tasks :
       /\ CompletedUpdate(t)
       /\ op[t].wc = 0 /\ op[t].bc > 0
       /\ start[op[t].user] # NoUser
       /\ start[op[t].user].bank + op[t].bc > BankLimit
       /\ users[op[t].user].bank = BankLimit
       /\ users[op[t].user].total_earned
             = start[op[t].user].total_earned
                  + (BankLimit - start[op[t].user].bank)
       /\ users[op[t].user].total_earned
             < start[op[t].user].total_earned + op[t].bc

\* C13: no write of update_balance lowers the stored total_earned.
C13_TotalEarnedMonotone ==
    [][\A t \in Tasks :
         (pc[t] = "ub_write" /\ pc'[t] # "ub_write") =>
            users'[loc[t].cuser].total_earned
               >= users[loc[t].cuser].total_earned]_vars

\* the write of task t has failed and the handler has called update_balance
\* again for the same user
WriteFailed(t) ==
    /\ pc[t] = "ub_lock"
    /\ holder[loc[t].cuser] = t

\* C14: when the write inside update_balance fails, update_balance raises to
\* its caller (and the stored wallet, bank and networth stay as they were).
C14_FailedWriteRaises ==
    \A t \in Tasks : [](WriteFailed(t) => <>(pc[t] = "done" /\ res[t].raised))

\* C15: in every reachable state every stock price lies within
\* [base_price * STOCK_MIN_RATIO, base_price * STOCK_MAX_RATIO] and the gold
\* price within [MIN_GOLD_PRICE, MAX_GOLD_PRICE].
C15_PriceBounds ==
    /\ \A s \in Symbols :
          /\ market.stocks[s].price * StockMinRatioDen >= BasePrice
          /\ market.stocks[s].price <= BasePrice * StockMaxRatio
    /\ MinGoldPrice <= market.gold_price
    /\ market.gold_price <= MaxGoldPrice

\* C15 witness: ticks have carried one stock to its upper bound, another to
\* its lower bound, and gold to a bound
C15_Witness ==
    /\ \E s \in Symbols : /\ market.stocks[s].price = BasePrice * StockMaxRatio
                          /\ market.stocks[s].previous_price # BasePrice
    /\ \E s \in Symbols : /\ market.stocks[s].price = MinStockPrice
                          /\ market.stocks[s].previous_price # BasePrice
    /\ market.gold_price \in {MinGoldPrice, MaxGoldPrice}

\* C16: after each market-hours check the open flag is true exactly when
\* open_hour <= current hour < close_hour, and the step that opens the market
\* regenerates the news, sets every stock's day_high and day_low to its
\* current price, and resets every stock's volume and the daily volume to 0.
C16_MarketHours ==
    /\ [](market.market_open = TradingHour(current_hour))
    /\ [][(~market.market_open /\ market'.market_open) =>
             /\ market'.news_calls # market.news_calls
             /\ \A s \in Symbols :
                   /\ market'.stocks[s].price = market.stocks[s].price
                   /\ market'.stocks[s].day_high = market.stocks[s].price
                   /\ market'.stocks[s].day_low = market.stocks[s].price
                   /\ market'.stocks[s].volume = 0
             /\ market'.daily_volume = 0]_vars

\* C16 witness: the market is open again after a day of trading, with the
\* statistics of a stock reset to a price that is not its starting price
C16_Witness ==
    /\ market.market_open
    /\ market.daily_volume = 0
    /\ \E s \in Symbols :
          /\ market.stocks[s].price # BasePrice
          /\ market.stocks[s].previous_price # market.stocks[s].price
          /\ market.stocks[s].day_high = market.stocks[s].price
          /\ market.stocks[s].day_low = market.stocks[s].price
          /\ market.stocks[s].volume = 0

\* the prices and daily statistics of a market
PriceState(m) ==
    <<m.gold_price,
      [s \in Symbols |-> <<m.stocks[s].price, m.stocks[s].previous_price,
                           m.stocks[s].day_high, m.stocks[s].day_low,
                           m.stocks[s].volume>>]>>

\* C17: no step taken while the market is closed and stays closed changes a
\* stock's price, previous price, day high, day low or volume, or the gold
\* price; and the step that closes the market changes the open flag only.
C17_ClosedMarketFrozen ==
    [][/\ (~market.market_open /\ ~market'.market_open) =>
             PriceState(market') = PriceState(market)
       /\ (market.market_open /\ ~market'.market_open) =>
             market' = [market EXCEPT !.market_open = FALSE]]_vars

\* C17 witness: the market is closed after a day in which prices moved
C17_Witness ==
    /\ ~market.market_open
    /\ current_hour >= CloseHour
    /\ market.gold_price # GoldStartPrice
    /\ \E s \in Symbols : market.stocks[s].volume > 0

\* C20 as stated: after set_cooldown(u, action) at time t, check_cooldown(u,
\* action, window) at time t' returns window - (t' - t) whenever t' - t <
\* window, None once t' - t >= window, and None when (u, action) was never set.
C20_CooldownRoundTrip ==
    [][checked' # checked =>
          LET c == checked'
              t == set_at[c.user][c.command]
          IN /\ (t # -1 /\ now - t < c.window) =>
                   c.value = c.window - (now - t)
             /\ (t # -1 /\ now - t >= c.window) => c.value = -1
             /\ (t = -1) => c.value = -1]_vars

\* C20 amended: the same, for as long as the store still holds the record;
\* the record held is the one of the last set_cooldown, and a record the
\* store has deleted reads as no record.
C20_CooldownWhileStored ==
    [][checked' # checked =>
          LET c == checked'
              r == cooldowns[c.user][c.command]
          IN /\ r # -1 => r = set_at[c.user][c.command]
             /\ (r # -1 /\ now - r < c.window) =>
                   (c.value = c.window - (now - r) /\ c.value > 0)
             /\ (r # -1 /\ now - r >= c.window) => c.value = -1
             /\ (r = -1) => c.value = -1]_vars

\* C20 witness: a check made some time after set_cooldown, inside the window,
\* has returned the part of the window that remains
C20_Witness ==
    /\ checked.user \in Users
    /\ cooldowns[checked.user][checked.command] # -1
    /\ checked.at > cooldowns[checked.user][checked.command]
    /\ checked.value > 0
    /\ checked.value
          = checked.window
               - (checked.at - cooldowns[checked.user][checked.command])

\* C18: a buy that was executed (the buyer has been charged for it) has moved
\* the market state the ticks read: gold demand is above the 0 it started the
\* day at after a gold buy, the stock's volume is above 0 after a stock buy.
C18_BuyMovesMarket ==
    \A t \in Tasks :
        (pc[t] = "done" /\ op[t].kind = "buy" /\ res[t].amount > 0)
            => IF op[t].asset = "gold"
               THEN market.gold_demand > LowMarket.gold_demand
               ELSE market.stocks[op[t].symbol].volume
                        > LowMarket.stocks[op[t].symbol].volume

\* the accepted trades of user u that count for entry e's rapid window
RecentAccepted(e) ==
    {i \in DOMAIN accepted : /\ accepted[i].user = e.user
                             /\ e.at - accepted[i].at < RapidWindow}

\* the accepted trades of e's (user, asset type) pair since time since
AcceptedSince(e, since) ==
    {i \in DOMAIN accepted : /\ accepted[i].user = e.user
                             /\ accepted[i].asset = e.asset
                             /\ accepted[i].at >= since}

\* C19: check_trade_limit accepts a trade only if its (user, asset type) pair
\* has fewer than the daily cap of accepted trades since the pair's last
\* daily reset, the amount is within the asset type's maximum and the user
\* has fewer than the rapid cap of accepted trades inside the rapid window;
\* the count of a pair never exceeds the daily cap and the rapid-trade list
\* never holds more than the rapid cap.
C19_TradeLimits ==
    /\ [](\A u \in Users :
            /\ Len(suspicious_activity[u]) <= RapidCap
            /\ \A a \in AssetTypes : trade_limits[u][a].count <= DailyTradeCap)
    /\ [][accepted' # accepted =>
            LET e == accepted'[Len(accepted')]
            IN /\ e.amount <= MaxOrder(e.asset)
               /\ Cardinality(RecentAccepted(e)) < RapidCap
               /\ Cardinality(AcceptedSince(e,
                        trade_limits'[e.user][e.asset].last_reset))
                     < DailyTradeCap]_vars

\* C19 witness: a pair is at its daily cap, the rapid-trade list is full, and
\* trades were accepted both before and after a daily reset
C19_Witness ==
    \E u \in Users, a \in AssetTypes :
        /\ trade_limits[u][a].count = DailyTradeCap
        /\ trade_limits[u][a].last_reset > 0
        /\ Len(suspicious_activity[u]) = RapidCap
        /\ \E i \in DOMAIN accepted :
              /\ accepted[i].user = u
              /\ accepted[i].asset = a
              /\ accepted[i].at < trade_limits[u][a].last_reset

\* the reasons buy_investment refuses an order for
Rejections == {"closed", "limit", "funds"}

\* what a user holds in the store
Holdings(d) == <<d.wallet, d.bank, d.portfolio>>

\* C21: the step in which a buy is rejected (market closed or bad amount,
\* trade limit, insufficient bank funds) leaves the buyer's stored wallet,
\* bank and portfolio as they were.
C21_RejectedBuy ==
    [][\A t \in Tasks :
          (/\ pc[t] # "done"
           /\ pc'[t] = "done"
           /\ op'[t].kind = "buy"
           /\ res'[t].why \in Rejections)
              => Holdings(users'[op'[t].user]) = Holdings(users[op'[t].user])]_vars

\* a call that has returned the default account without raising
ReturnedDefault(t) ==
    /\ res[t].ok
    /\ ~res[t].raised
    /\ res[t].wallet = StartingMoney
    /\ res[t].bank = 0

\* C22: while the store is not connected, get_user and update_balance return
\* the default account, check_cooldown returns None, none of them raises and
\* no stored account or cooldown record changes.
C22_Offline ==
    /\ [](~connected =>
            /\ \A t \in Tasks :
                  (pc[t] = "done" /\ op[t].kind \in {"get", "ub"})
                      => ReturnedDefault(t)
            /\ checked.user \in Users => checked.value = -1)
    /\ [][~connected => (users' = users /\ cooldowns' = cooldowns)]_vars

\* C22 witness: offline, a get_user and an update_balance have returned for
\* users whose stored wallet is not the default one, and a cooldown was
\* checked for a user who has a record inside the window
C22_Witness ==
    /\ ~connected
    /\ \E t \in Tasks, s \in Tasks :
          /\ pc[t] = "done" /\ op[t].kind = "get"
          /\ pc[s] = "done" /\ op[s].kind = "ub"
          /\ Present(op[t].user) /\ users[op[t].user].wallet # StartingMoney
          /\ Present(op[s].user) /\ users[op[s].user].wallet # StartingMoney
    /\ checked.user \in Users
    /\ cooldowns[checked.user][checked.command] # -1
    /\ checked.at - cooldowns[checked.user][checked.command] < checked.window

\* the step in which task t's update_balance call writes and returns
Returns(t) == pc[t] = "ub_write" /\ pc'[t] = "done" /\ op[t].kind = "ub"

\* C23: update_balance returns the overflow annotation exactly when the
\* wallet limit or the bank limit would have been exceeded; the requested
\* deltas in it are the call's arguments and the actual deltas are the
\* differences between the balances stored after and before the call.
C23_OverflowAnnotation ==
    [][\A t \in Tasks :
          Returns(t) =>
            LET before == users[op[t].user]
                after == users'[op[t].user]
                r == res'[t]
            IN /\ r.overflow <=> \/ before.wallet + op[t].wc > WalletLimit
                                  \/ before.bank + op[t].bc > BankLimit
               /\ r.overflow =>
                    /\ r.rwc = op[t].wc
                    /\ r.rbc = op[t].bc
                    /\ r.awc = after.wallet - before.wallet
                    /\ r.abc = after.bank - before.bank]_vars

\* C24: for an account within its limits and deltas that take neither balance
\* below zero, update_balance raises wallet + bank by no more than
\* wallet_delta + bank_delta.
C24_NoExtraCredit ==
    [][\A t \in Tasks :
          Returns(t) =>
            LET before == users[op[t].user]
                after == users'[op[t].user]
            IN (/\ before.wallet \in 0..WalletLimit
                /\ before.bank \in 0..BankLimit
                /\ before.wallet + op[t].wc >= 0
                /\ before.bank + op[t].bc >= 0)
                  => (after.wallet + after.bank)
                       - (before.wallet + before.bank)
                         <= op[t].wc + op[t].bc]_vars

\* C24 witness: a call that raised the wallet past its limit has returned,
\* part of the credit in the bank and part of it dropped
C24_Witness ==
    \E t \in Tasks :
        /\ CompletedUpdate(t)
        /\ res[t].overflow
        /\ op[t].wc > 0
        /\ op[t].bc >= 0
        /\ res[t].abc > op[t].bc
        /\ res[t].awc + res[t].abc < op[t].wc + op[t].bc

\* C25: when the read of an existing account failed inside update_balance,
\* the balance stored after the call is the one stored before it, either
\* untouched or with the call's deltas applied to it.
C25_FailedReadKeepsBalance ==
    [][\A t \in Tasks :
          (Returns(t) /\ loc[t].read_failed /\ Present(op[t].user)) =>
            LET before == users[op[t].user]
                applied == UpdateCalc(before, op[t].wc, op[t].bc)
            IN \/ Balances(users'[op[t].user]) = Balances(before)
               \/ Balances(users'[op[t].user])
                     = <<applied.wallet, applied.bank>>]_vars

\* C26: transfer_money(u, u, amount), sender and receiver the same user,
\* eventually returns, for every amount.
C26_SelfTransferReturns ==
    \A t \in Tasks :
        []((op[t].kind = "tr" /\ op[t].user = op[t].to) => <>(pc[t] = "done"))

\* C27: the registry holds at most one lock per user id, created on a request
\* for that user; once created it is never removed or replaced, and no two
\* users share a lock.
C27_LockRegistry ==
    /\ [](\A u \in Users, v \in Users :
            (u # v /\ lockId[u] # 0) => lockId[u] # lockId[v])
    /\ [][\A u \in Users :
            /\ lockId[u] # 0 => lockId'[u] = lockId[u]
            /\ (lockId[u] = 0 /\ lockId'[u] # 0) =>
                  \E t \in Tasks : /\ Moved(t)
                                    /\ u \in {op'[t].user, op'[t].to}]_vars

\* C27 witness: a second request for a user's lock got the lock the first
\* request created: its caller waits while the first caller holds it
C27_Witness ==
    \E t \in Tasks, s \in Tasks :
        /\ t # s
        /\ op[t].kind = "ub" /\ op[s].kind = "ub"
        /\ op[t].user = op[s].user
        /\ lockId[op[t].user] # 0
        /\ holder[op[t].user] = t
        /\ pc[s] = "ub_lock"

\* task t's work command has made its payout
PaidWork(t) == op[t].kind = "work" /\ res[t].at # -1

Debits(t) ==
    /\ pc[t] = "ub_write"
    /\ loc[t].ret = "buy"
    /\ pc'[t] # pc[t]

SettlesLoss(t) ==
    /\ pc[t] = "ub_write"
    /\ op[t].kind \in Games
    /\ op[t].outcome = "lost"
    /\ pc'[t] # pc[t]

\* C30: settling a lost game takes exactly the bet off the player's stored
\* wallet, also when other games of that player were validated against the
\* same wallet and are settled in between.
C30_LostBet ==
    [][\A t \in Tasks :
          SettlesLoss(t) =>
             users'[op[t].user].wallet = users[op[t].user].wallet - op[t].amount]_vars

\* the fields of an account that migration is to leave alone
Kept(d) == <<d.wallet, d.bank, d.networth, d.total_earned, d.bar, d.portfolio>>

\* C31: the write of get_user's migration stores the account at the current
\* schema version with every field present and with the fields that were
\* stored before it unchanged; a get_user that finds the account at the
\* current version changes nothing in the store.
C31_MigrationKeepsFields ==
    [][\A t \in Tasks :
          /\ (pc[t] = "migrate" /\ pc'[t] # "migrate") =>
                LET u == GUser(t)
                IN /\ users'[u] # NoUser
                   /\ users'[u].ver = CurrentSchemaVersion
                   /\ Kept(users'[u]) = Kept(users[u])
          /\ (/\ pc[t] = "find"
              /\ Moved(t)
              /\ users[GUser(t)] # NoUser
              /\ users[GUser(t)].ver = CurrentSchemaVersion) => users' = users]_vars

\* the absolute value
Magnitude(x) == IF x < 0 THEN 0 - x ELSE x

\* a tick has run in an open market: the step changes the market and leaves
\* it open (opening and closing change market_open, a buy changes nothing)
Ticked == market.market_open /\ market'.market_open /\ market' # market

RECURSIVE TotalImpact(_)
\* the impacts of a news list added up, in hundredths
TotalImpact(events) ==
    IF events = << >> THEN 0
    ELSE NewsPool[Head(events)].impact + TotalImpact(Tail(events))

RECURSIVE ImpactOn(_, _, _)
\* the impacts of the events of one type and sector in a news list, added up
ImpactOn(events, type, sector) ==
    IF events = << >> THEN 0
    ELSE LET e == NewsPool[Head(events)]
         IN (IF e.type = type /\ e.sector = sector THEN e.impact ELSE 0)
            + ImpactOn(Tail(events), type, sector)

Mentions(events, type, sector) ==
    \E i \in DOMAIN events :
        NewsPool[events[i]].type = type /\ NewsPool[events[i]].sector = sector

\* entry key of the impact table is what the list says of type and sector:
\* the sum of their impacts times NEWS_IMPACT_MULTIPLIER (in thousandths), or
\* no entry when the list has no such event
EntryIs(key, type, sector) ==
    IF Mentions(market.news_events, type, sector)
    THEN /\ key \in DOMAIN market.news_impact_cache
         /\ market.news_impact_cache[key]
              = ImpactOn(market.news_events, type, sector) * 5
    ELSE key \notin DOMAIN market.news_impact_cache

\* C34: after every news generation (start-up, market open, forced) the
\* news list holds 3 to 5 pairwise distinct events, and the impact table
\* holds, per sector and for gold, exactly the sum of the impacts of the
\* current events times NEWS_IMPACT_MULTIPLIER, with no entry left over
\* from an earlier list.
C34_NewsAndImpactTable ==
    LET events == market.news_events
    IN /\ Len(events) >= 3 /\ Len(events) <= 5
       /\ \A i, j \in DOMAIN events : i # j => events[i] # events[j]
       /\ EntryIs(0, "gold", 0)
       /\ \A s \in Symbols : EntryIs(s, "sector", s)
       /\ DOMAIN market.news_impact_cache \subseteq Symbols \cup {0}

\* forced news of five events, both events of sector 1 among them and no
\* gold event
C34_Witness ==
    /\ news_cooldowns # -1
    /\ Len(market.news_events) = 5
    /\ DOMAIN market.news_impact_cache = {1}
    /\ market.news_impact_cache[1] = 15

\* C35: the market sentiment is within [-1, 1] in every reachable state,
\* for every combination of economic indicators, news impacts and trend
\* (in hundredths).
C35_SentimentBounded ==
    market.market_sentiment >= -100 /\ market.market_sentiment <= 100

\* a sentiment that was cut off at -1: weak growth, high inflation and
\* interest, bad news and a bear trend
C35_Witness ==
    /\ market.market_sentiment = -100
    /\ market.market_trend = "bear"
    /\ RawSentiment(market, -20) < -100

\* C36: each tick sets every stock's previous_price to the price the stock
\* had before the tick, and day_low <= price <= day_high holds of every
\* stock in every state.
C36_PreviousPriceAndDayRange ==
    /\ [](\A s \in Symbols :
             /\ market.stocks[s].day_low <= market.stocks[s].price
             /\ market.stocks[s].price <= market.stocks[s].day_high)
    /\ [][Ticked =>
             \A s \in Symbols :
                market'.stocks[s].previous_price = market.stocks[s].price]_vars

\* a stock that fell and rose again within the day: its price is strictly
\* between the day's low and high, above the price before the last tick
C36_Witness ==
    /\ market.market_open
    /\ \E s \in Symbols :
          /\ market.stocks[s].day_low < market.stocks[s].price
          /\ market.stocks[s].price < market.stocks[s].day_high
          /\ market.stocks[s].previous_price < market.stocks[s].price

RECURSIVE VolumeOfFirst(_, _)
\* the volumes of the stocks 1..n added up
VolumeOfFirst(stocks, n) ==
    IF n = 0 THEN 0 ELSE stocks[n].volume + VolumeOfFirst(stocks, n - 1)

Opened == ~market.market_open /\ market'.market_open

\* C37: after every tick and after the reset at market open daily_volume is
\* the sum of the stocks' volumes, and no stock's volume decreases from one
\* tick to the next of the same open period.
C37_DailyVolume ==
    [][/\ (Ticked \/ Opened) =>
            market'.daily_volume = VolumeOfFirst(market'.stocks, NumStocks)
       /\ Ticked =>
            \A s \in Symbols :
               market'.stocks[s].volume >= market.stocks[s].volume]_vars

\* the last tick the day's volumes are followed to: every stock at the
\* largest volume
C37_Witness ==
    /\ market.market_open
    /\ \A s \in Symbols : market.stocks[s].volume = MaxVolume
    /\ market.daily_volume = NumStocks * MaxVolume

\* C38: a user's stored intoxication level stays within 0..MAX_INTOXICATION
\* after any sequence of drink orders and sobering steps, also when several
\* orders of the same user run at the same time.
C38_IntoxicationWithinScale ==
    \A u \in Users :
       Present(u) => /\ users[u].intoxication_level >= 0
                     /\ users[u].intoxication_level <= MaxIntoxication

\* C39: after every is_spam call the number of tracked users does not
\* exceed MAX_TRACKED_USERS.
C39_TrackerWithinLimit == Len(spam_tracker) <= MaxTrackedUsers
====
